---- MODULE Spec2Model ----
(***************************************************************************)
(* A model of three parts of the CrawlingCluster repository:               *)
(*   - the breadth-first crawl loops of DeepAsyncWebCrawler and            *)
(*     RelevantAsyncWebCrawler (crawling/src/driver/deep),                 *)
(*   - RetryStrategy.execute_with_retry (databases/session/retry.py),      *)
(*   - CookieManager / SessionStatusManager / SessionManager over          *)
(*     SessionStorage (databases/session/manager.py, storage.py).          *)
(* Each part has its own specification (SpecCrawl, SpecRetry, SpecSession);*)
(* the variables of the other parts stay at their initial values.          *)
(***************************************************************************)
EXTENDS Integers, Sequences, FiniteSets, TLC

(***************************************************************************)
(* Bounds of the model.                                                    *)
(***************************************************************************)
NumUrls == 3
NumTasks == 2
MaxDepthBound == 2
MaxPagesBound == 4
MaxRetriesBound == 3
MaxInitialDelay == 2
MaxApplyRetries == 1
MaxCalls == 2
MaxTicks == 1
MaxWrRetries == 1
MaxAppends == 11
MaxKvCalls == 3
RecursionLimit == 2
MaxDetectorCalls == 3
MaxPageChanges == 1
SimSteps == 4
MaxContentCalls == 2

None == "None"

(***************************************************************************)
(* The state.                                                              *)
(***************************************************************************)
VARIABLES
    crawlerKind,   \* "base": DeepAsyncWebCrawler, "relevant": RelevantAsyncWebCrawler
    max_pages,     \* self.max_pages
    max_depth,     \* self.max_depth
    keywordUrls,   \* the URLs for which is_relevant_url is true
    keywords,      \* self.keywords, a set of strings (each a sequence of characters)
    visited_urls,  \* self.visited_urls
    url_queue,     \* self.url_queue, a FIFO of <<url, depth>>
    results,       \* self.results: url -> url_format, the records parsed from its page
                   \* (the loop never reads them back: one token stands for them)
    pc,            \* per crawl task: "loop", "fetch", "done", "crashed"
    cur,           \* per crawl task: the <<url, depth>> it is fetching
    fetchCount,    \* history: how many fetches were started for each URL
    gotContent,    \* history: the URLs whose fetch returned content
    gateSkipped,   \* history: the URLs an entry of which is_relevant_url rejected
    accepted,      \* history: the pages fetched with content that passed the gate
    rejected       \* history: the pages past depth 0 fetched with no content or
                   \* with content is_relevant_content refused

crawlVars == <<crawlerKind, max_pages, max_depth, keywordUrls, keywords, visited_urls,
               url_queue, results, pc, cur, fetchCount, gotContent, gateSkipped,
               accepted, rejected>>

VARIABLES
    policy,        \* [max_retries, initial_delay] of the RetryStrategy
    retryPc,       \* "ready", "running", "returned", "raised"
    retries,       \* the local retries
    delay,         \* the local delay, a fraction <<numerator, denominator>>
    last_error,    \* the local last_error: NoError or <<class, number of the call>>
    opCalls,       \* history: the outcome of each call of func ("ok" or a class)
    sleeps,        \* history: <<number of the call slept after, delay>>
    retryOutcome   \* what execute_with_retry gave its caller

retryVars == <<policy, retryPc, retries, delay, last_error, opCalls, sleeps,
               retryOutcome>>

VARIABLES
    now,           \* the clock datetime.now() reads, in seconds
    ticks,         \* how many times the clock has advanced
    calls,         \* how many calls of the session API have been made
    storeUp,       \* whether the Redis operations succeed (for the whole run)
    cookieStore,   \* per domain, the key crawler:cookies:<domain>
    statusStore,   \* per domain, the key crawler:status:<domain>
    errorStore,    \* per domain, the list crawler:status:<domain>:errors
    driver,        \* the browser handle: the identity it reports
    apPc,          \* apply_cookies_and_session: "idle", "try", "except", "after",
                   \*   "returned", "raised"
    ap,            \* its parameters and locals: [domain, max_retries, retries,
                   \*   delay, success, last_error, pending, session_data]
    apHist,        \* history of the call in progress
    prevApply,     \* history: per domain, how the previous call ended
    lastLoad       \* the load_cookies call just made: its domain and what it returned

sessionVars == <<now, ticks, calls, storeUp, cookieStore, statusStore, errorStore,
                 driver, apPc, ap, apHist, prevApply, lastLoad>>

VARIABLES
    wrPc,          \* with_session_retry: "ready", "invoke", "except", "sleep",
                   \*   "applying", "returned", "raised"
    wr,            \* its parameters and locals: [domain, max_retries, retries,
                   \*   delay, last_error, pending]
    wrHist         \* history of the call

wrVars == <<wrPc, wr, wrHist>>

VARIABLES
    errAppended    \* history: per domain, the records record_error was called with

errVars == <<errAppended>>

VARIABLES
    redis,         \* the Redis keyspace: key string -> value
    kvLast,        \* the SessionStorage operation just made: [op, domain]
    kvCalls        \* how many operations have been made

kvVars == <<redis, kvLast, kvCalls>>

VARIABLES
    sPc,           \* where the driver initialisation and search workflow stands
    sw,            \* its objects and history: the browsers of the session
                   \*   manager and of the orchestrator, counters, result
    sStore         \* the cookie records of the store, by the argument the
                   \*   key was formatted with

searchVars == <<sPc, sw, sStore>>

VARIABLES
    hCfg,          \* the browser-driven crawl: [num_tasks, max_pages, max_depth]
    hPc,           \* per crawl task: "start", "loop", "sleep", "loading",
                   \*   "done"; "absent" for a task run() did not create
    hCur,          \* per crawl task: the <<url, depth>> it is processing
    hQueue,        \* self.url_queue
    hVisited,      \* self.visited_urls
    hBrowser,      \* self.driver, the page it shows, browsers created so far
    hLast,         \* the last operation on the browser: [op, task, n]
    hHist          \* history: [fetches: per URL the calls of driver.get,
                   \*   raised: the URLs whose fetch raised]

browseVars == <<hCfg, hPc, hCur, hQueue, hVisited, hBrowser, hLast, hHist>>

VARIABLES
    dBrowser,      \* the page the detector's browser shows
    dCalls,        \* history: the detector calls made, [op, result, epoch]
    dEpoch         \* history: how often the page has changed

detectVars == <<dBrowser, dCalls, dEpoch>>

VARIABLES
    rcThreshold,   \* self.relevance_threshold, in steps of 1 / SimSteps
    rcCalls        \* history: the calls of is_relevant_content, [page, accepted]

relevanceVars == <<rcThreshold, rcCalls>>

VARIABLES
    svSlot,        \* one Redis key: [present, value, ttl]
    svLast         \* history: the last call of save, [fault, before, returned]

saveVars == <<svSlot, svLast>>

VARIABLES
    cStore,        \* the session stored for the domain the two calls share
    cStatus,       \* the status stored for that domain
    cPc,           \* where each thread is in apply_cookies_and_session
    cLoc,          \* each call's locals: [session_data, retries, success, found]
    cMade          \* the number of sessions generated so far

concVars == <<cStore, cStatus, cPc, cLoc, cMade>>

\* What the steps of one part leave alone: the variables of the other parts.
nonCrawlVars == <<retryVars, sessionVars, wrVars, errVars, kvVars, searchVars,
    browseVars,
    detectVars,
    relevanceVars,
    saveVars,
    concVars>>
nonRetryVars == <<crawlVars, sessionVars, wrVars, errVars, kvVars, searchVars,
    browseVars,
    detectVars,
    relevanceVars,
    saveVars,
    concVars>>
nonSessionVars == <<crawlVars, retryVars, wrVars, errVars, kvVars, searchVars,
    browseVars,
    detectVars,
    relevanceVars,
    saveVars,
    concVars>>
nonWrVars == <<crawlVars, retryVars, errVars, kvVars, searchVars,
    browseVars,
    detectVars,
    relevanceVars,
    saveVars,
    concVars>>
nonErrVars == <<crawlVars, retryVars, wrVars, kvVars, searchVars,
    browseVars,
    detectVars,
    relevanceVars,
    saveVars,
    concVars>>
nonKvVars == <<crawlVars, retryVars, sessionVars, wrVars, errVars, searchVars,
    browseVars,
    detectVars,
    relevanceVars,
    saveVars,
    concVars>>
nonSearchVars == <<crawlVars, retryVars, sessionVars, wrVars, errVars, kvVars,
    browseVars,
    detectVars,
    relevanceVars,
    saveVars,
    concVars>>
nonBrowseVars == <<crawlVars, retryVars, sessionVars, wrVars, errVars, kvVars,
    searchVars,
    detectVars,
    relevanceVars,
    saveVars,
    concVars>>
nonDetectVars == <<crawlVars, retryVars, sessionVars, wrVars,
    errVars, kvVars, searchVars, browseVars,
    relevanceVars,
    saveVars,
    concVars>>
nonRelevanceVars == <<crawlVars, retryVars, sessionVars, wrVars,
    errVars, kvVars, searchVars, browseVars, detectVars,
    saveVars,
    concVars>>
nonSaveVars == <<crawlVars, retryVars, sessionVars, wrVars, errVars,
    kvVars, searchVars, browseVars, detectVars, relevanceVars,
    concVars>>
nonConcVars == <<crawlVars, retryVars, sessionVars, wrVars, errVars,
    kvVars, searchVars, browseVars, detectVars, relevanceVars, saveVars>>


(***************************************************************************)
(* Part 1: the crawl engine.                                               *)
(***************************************************************************)
Urls == 1..NumUrls
Tasks == 1..NumTasks
start_url == 1

\* urlparse(link).netloc: the URLs are spread over two sites.
Netloc(u) == u % 2

\* All the orders in which the elements of a set can be iterated.
RECURSIVE Orders(_)
Orders(S) ==
    IF S = {} THEN { <<>> }
    ELSE UNION { { <<x>> \o s : s \in Orders(S \ {x}) } : x \in S }

\* The URLs of a sequence of frontier entries.
EntryUrls(q) == { q[i][1] : i \in 1..Len(q) }

\* str.lower() on one character of the alphabet the URLs and keywords are
\* written in.
Lower(c) ==
    CASE c = "A" -> "a" [] c = "B" -> "b" [] c = "C" -> "c" [] OTHER -> c
LowerStr(s) == [i \in 1..Len(s) |-> Lower(s[i])]

\* "k in s" on strings: k is a substring of s.
Contains(s, k) ==
    \E i \in 1..(Len(s) - Len(k) + 1) : SubSeq(s, i, i + Len(k) - 1) = k

\* The text of the URLs: two characters each, in mixed case.
Alphabet == <<"a", "A", "b", "B", "c", "C">>
UrlText(u) == <<Alphabet[(u % 6) + 1], Alphabet[((2 * u) % 6) + 1]>>

\* The keyword lists a crawler may be configured with.
KeywordPool == {<<"a">>, <<"B">>, <<"a", "B">>}

\* is_relevant_url(url):
\*   any(keyword.lower() in url.lower() for keyword in self.keywords)
UrlHasKeyword(u, kws) ==
    \E k \in kws : Contains(LowerStr(UrlText(u)), LowerStr(k))

\* is_relevant_url(url) on the crawler's keywords.
is_relevant_url(u) == u \in keywordUrls

\* The loop condition of crawl().
LoopConditionUnbounded == url_queue # <<>>
LoopConditionBudgetOnly == Cardinality(visited_urls) < max_pages
LoopCondition == url_queue # <<>> /\ Cardinality(visited_urls) < max_pages

\* A task that holds no frontier entry.
NoEntry == <<0, 0>>

\* await self.url_queue.get(): the call returns when the queue holds an entry
\* and suspends the task for as long as it holds none.
GetReturns == url_queue # <<>>

\* The discard test on a dequeued entry.
Discarded(u, depth) == u \in visited_urls \/ depth > max_depth

\* The URL gate of the relevant crawler: entries past the start URL need a keyword.
UrlGateOpen(u, depth) == FALSE

UrlGateRejects(u, depth) ==
    crawlerKind = "relevant" /\ ~is_relevant_url(u) /\ depth > 0

\* self.visited_urls.add(current_url), before the fetch is awaited.
MarkVisitedDropped(u) == visited_urls
MarkVisited(u) == visited_urls \cup {u}

ContentGateOpen(depth, relevantContent) == TRUE

\* The content gate: the base crawler has none, the relevant crawler accepts
\* the start page and the pages is_relevant_content accepts.
ContentGate(depth, relevantContent) ==
    crawlerKind = "base" \/ depth = 0 \/ relevantContent

\* Whether a page of this depth is parsed, recorded and expanded.
MayExpand(depth) == depth < max_depth

\* "if link not in self.visited_urls": the links that are put on the queue.
LinksToPushUnfiltered(new_links) == new_links
LinksToPush(new_links) == { l \in new_links : l \notin visited_urls }

\* The depth of an entry pushed from a page of depth `depth`.
ChildDepthSame(depth) == depth
ChildDepth(depth) == depth + 1

\* The orders in which the links can be put: a set is iterated in any order;
\* the relevant crawler sorts (stably) the links of the page's site first.
PushOrders(u, links) ==
    IF crawlerKind = "base" THEN Orders(links)
    ELSE { s \in Orders(links) :
             \A i, j \in 1..Len(s) :
                 (i < j /\ Netloc(s[j]) = Netloc(u)) => Netloc(s[i]) = Netloc(u) }

CrawlOff ==
    /\ crawlerKind = "off"
    /\ max_pages = 0
    /\ max_depth = 0
    /\ keywordUrls = {}
    /\ keywords = {}
    /\ visited_urls = {}
    /\ url_queue = <<>>
    /\ results = << >>
    /\ pc = [t \in Tasks |-> "off"]
    /\ cur = [t \in Tasks |-> NoEntry]
    /\ fetchCount = [u \in Urls |-> 0]
    /\ gotContent = {}
    /\ gateSkipped = {}
    /\ accepted = {}
    /\ rejected = {}

InitCrawl ==
    /\ crawlerKind \in {"base", "relevant"}
    /\ max_pages \in 1..MaxPagesBound
    /\ max_depth \in 0..MaxDepthBound
    /\ keywords \in (IF crawlerKind = "base" THEN {{}} ELSE SUBSET KeywordPool)
    /\ keywordUrls = { u \in Urls : UrlHasKeyword(u, keywords) }
    /\ visited_urls = {}
    /\ url_queue = << <<start_url, 0>> >>
    /\ results = << >>
    /\ pc = [t \in Tasks |-> "loop"]
    /\ cur = [t \in Tasks |-> NoEntry]
    /\ fetchCount = [u \in Urls |-> 0]
    /\ gotContent = {}
    /\ gateSkipped = {}
    /\ accepted = {}
    /\ rejected = {}

\* The entry at the head of the queue is discarded: already visited, too deep,
\* or rejected by the URL gate.
DequeueSkip(t) ==
    /\ UNCHANGED nonCrawlVars
    /\ UNCHANGED <<accepted, rejected>>
    /\ pc[t] = "loop"
    /\ LoopCondition
    /\ GetReturns
    /\ LET u == Head(url_queue)[1]
           depth == Head(url_queue)[2]
       IN  /\ Discarded(u, depth) \/ UrlGateRejects(u, depth)
           /\ url_queue' = Tail(url_queue)
           /\ gateSkipped' = IF Discarded(u, depth) THEN gateSkipped
                              ELSE gateSkipped \cup {u}
    /\ UNCHANGED <<crawlerKind, max_pages, max_depth, keywordUrls, keywords, visited_urls,
                   results, pc, cur, fetchCount, gotContent>>

\* The entry at the head of the queue is accepted: it is marked visited and the
\* fetch starts. asyncio.Queue.get() does not suspend on a non-empty queue, so
\* from the loop condition to the await of the fetch nothing else runs.
DequeueFetch(t) ==
    /\ UNCHANGED nonCrawlVars
    /\ UNCHANGED <<accepted, rejected>>
    /\ UNCHANGED gateSkipped
    /\ pc[t] = "loop"
    /\ LoopCondition
    /\ GetReturns
    /\ LET u == Head(url_queue)[1]
           depth == Head(url_queue)[2]
       IN  /\ ~Discarded(u, depth)
           /\ ~UrlGateRejects(u, depth)
           /\ url_queue' = Tail(url_queue)
           /\ visited_urls' = MarkVisited(u)
           /\ cur' = [cur EXCEPT ![t] = <<u, depth>>]
           /\ fetchCount' = [fetchCount EXCEPT ![u] = @ + 1]
    /\ pc' = [pc EXCEPT ![t] = "fetch"]
    /\ UNCHANGED <<crawlerKind, max_pages, max_depth, keywordUrls, keywords, results, gotContent>>

\* The loop condition is false: the task ends.
LoopExit(t) ==
    /\ UNCHANGED nonCrawlVars
    /\ UNCHANGED <<accepted, rejected>>
    /\ UNCHANGED gateSkipped
    /\ pc[t] = "loop"
    /\ ~LoopCondition
    /\ pc' = [pc EXCEPT ![t] = "done"]
    /\ UNCHANGED <<crawlerKind, max_pages, max_depth, keywordUrls, keywords, visited_urls,
                   url_queue, results, cur, fetchCount, gotContent>>

\* The fetch returns nothing (None or an empty body).
FetchEmpty(t) ==
    /\ UNCHANGED nonCrawlVars
    /\ UNCHANGED <<gateSkipped, accepted>>
    /\ pc[t] = "fetch"
    /\ rejected' = IF cur[t][2] > 0 THEN rejected \cup {cur[t][1]} ELSE rejected
    /\ pc' = [pc EXCEPT ![t] = "loop"]
    /\ cur' = [cur EXCEPT ![t] = NoEntry]
    /\ UNCHANGED <<crawlerKind, max_pages, max_depth, keywordUrls, keywords, visited_urls,
                   url_queue, results, fetchCount, gotContent>>

\* The fetch raises (httpx errors are not caught): the task ends with the exception.
FetchRaise(t) ==
    /\ UNCHANGED nonCrawlVars
    /\ UNCHANGED <<accepted, rejected>>
    /\ UNCHANGED gateSkipped
    /\ pc[t] = "fetch"
    /\ pc' = [pc EXCEPT ![t] = "crashed"]
    /\ cur' = [cur EXCEPT ![t] = NoEntry]
    /\ UNCHANGED <<crawlerKind, max_pages, max_depth, keywordUrls, keywords, visited_urls,
                   url_queue, results, fetchCount, gotContent>>

\* The fetch returns content holding the links new_links. The queue is
\* unbounded, so put() does not suspend and the whole block runs at once.
FetchContent(t) ==
    /\ UNCHANGED nonCrawlVars
    /\ UNCHANGED gateSkipped
    /\ pc[t] = "fetch"
    /\ \E new_links \in SUBSET Urls, relevantContent \in BOOLEAN :
         LET u == cur[t][1]
             depth == cur[t][2]
         IN  /\ gotContent' = gotContent \cup {u}
             /\ accepted' = IF ContentGate(depth, relevantContent)
                             THEN accepted \cup {u} ELSE accepted
             /\ rejected' = IF crawlerKind = "relevant" /\ depth > 0
                                /\ ~relevantContent
                             THEN rejected \cup {u} ELSE rejected
             /\ IF ContentGate(depth, relevantContent) /\ MayExpand(depth)
                THEN /\ results' = [x \in (DOMAIN results) \cup {u} |->
                                       "url_format"]
                     /\ \E order \in PushOrders(u, LinksToPush(new_links)) :
                          url_queue' = url_queue \o
                              [i \in 1..Len(order) |-> <<order[i], ChildDepth(depth)>>]
                ELSE UNCHANGED <<results, url_queue>>
    /\ pc' = [pc EXCEPT ![t] = "loop"]
    /\ cur' = [cur EXCEPT ![t] = NoEntry]
    /\ UNCHANGED <<crawlerKind, max_pages, max_depth, keywordUrls, keywords, visited_urls,
                   fetchCount>>

NextCrawl ==
    \E t \in Tasks :
        \/ DequeueSkip(t)
        \/ DequeueFetch(t)
        \/ LoopExit(t)
        \/ FetchEmpty(t)
        \/ FetchRaise(t)
        \/ FetchContent(t)

\* The runs in which every fetch returns (a page or nothing).
NextCrawlReturning ==
    \E t \in Tasks :
        \/ DequeueSkip(t)
        \/ DequeueFetch(t)
        \/ LoopExit(t)
        \/ FetchEmpty(t)
        \/ FetchContent(t)

\* One step of task t in such a run. The event loop resumes every task that
\* is ready, and a fetch that is awaited returns.
CrawlStep(t) ==
    \/ DequeueSkip(t)
    \/ DequeueFetch(t)
    \/ LoopExit(t)
    \/ FetchEmpty(t)
    \/ FetchContent(t)


(***************************************************************************)
(* Part 2: RetryStrategy.execute_with_retry.                               *)
(***************************************************************************)
NoError == <<"None", 0>>

\* backoff_factor = 1.5, as the fraction BackoffNum / BackoffDen.
BackoffNum == 3
BackoffDen == 2

\* The classes of exception an operation raises: a transient automation error,
\* a programming error, and one that is a BaseException but not an Exception.
ExceptionClasses == {"TimeoutException", "ValueError", "KeyboardInterrupt"}

\* "except Exception": the classes the handler of execute_with_retry catches.
CaughtByExecutor == {"TimeoutException", "ValueError"}

\* "while retries <= self.max_retries" / "if retries <= self.max_retries".
WithinRetriesStrict(r) == r < policy.max_retries
WithinRetries(r) == r <= policy.max_retries

NextDelayFlat(d) == d

\* delay *= self.backoff_factor
NextDelay(d) == <<d[1] * BackoffNum, d[2] * BackoffDen>>

\* execute_with_retry run on the outcomes func gives call after call ("ok" or
\* the class of the exception raised): the number of calls of func it makes
\* and the durations it sleeps, from retries = r and delay = d on.
RECURSIVE RetryLoop(_, _, _, _, _)
RetryLoop(outcomes, r, d, n, acc) ==
    IF ~(r <= n) \/ outcomes = <<>> THEN acc
    ELSE LET called == [acc EXCEPT !.attempts = @ + 1]
         IN  IF Head(outcomes) = "ok" THEN called
             ELSE IF r + 1 <= n
             THEN RetryLoop(Tail(outcomes), r + 1, NextDelay(d), n,
                            [called EXCEPT !.sleeps = Append(@, d)])
             ELSE called

RetryOff ==
    /\ policy = [max_retries |-> 0, initial_delay |-> 0]
    /\ retryPc = "off"
    /\ retries = 0
    /\ delay = <<0, 1>>
    /\ last_error = NoError
    /\ opCalls = <<>>
    /\ sleeps = <<>>
    /\ retryOutcome = NoError

InitRetry ==
    /\ policy \in [max_retries : 0..MaxRetriesBound, initial_delay : 1..MaxInitialDelay]
    /\ retryPc = "ready"
    /\ retries = 0
    /\ delay = <<0, 1>>
    /\ last_error = NoError
    /\ opCalls = <<>>
    /\ sleeps = <<>>
    /\ retryOutcome = NoError

\* execute_with_retry is entered: the locals are set.
RetryEnter ==
    /\ UNCHANGED nonRetryVars
    /\ retryPc = "ready"
    /\ retryPc' = "running"
    /\ retries' = 0
    /\ delay' = <<policy.initial_delay, 1>>
    /\ last_error' = NoError
    /\ UNCHANGED <<policy, opCalls, sleeps, retryOutcome>>

\* func returns: its value is returned at once.
RetryCallReturns ==
    /\ UNCHANGED nonRetryVars
    /\ retryPc = "running"
    /\ WithinRetries(retries)
    /\ opCalls' = Append(opCalls, "ok")
    /\ retryPc' = "returned"
    /\ retryOutcome' = <<"value", Len(opCalls) + 1>>
    /\ UNCHANGED <<policy, retries, delay, last_error, sleeps>>

\* func raises an exception the handler catches: sleep and go round again, or
\* leave the loop and raise last_error.
RetryCallCaught ==
    /\ UNCHANGED nonRetryVars
    /\ retryPc = "running"
    /\ WithinRetries(retries)
    /\ \E class \in CaughtByExecutor :
         LET e == <<class, Len(opCalls) + 1>> IN
         /\ opCalls' = Append(opCalls, class)
         /\ last_error' = e
         /\ retries' = retries + 1
         /\ IF WithinRetries(retries + 1)
            THEN /\ sleeps' = Append(sleeps, <<Len(opCalls) + 1, delay>>)
                 /\ delay' = NextDelay(delay)
                 /\ UNCHANGED <<retryPc, retryOutcome>>
            ELSE /\ retryPc' = "raised"
                 /\ retryOutcome' = e
                 /\ UNCHANGED <<sleeps, delay>>
    /\ UNCHANGED policy

\* func raises an exception that "except Exception" does not catch.
RetryCallEscapes ==
    /\ UNCHANGED nonRetryVars
    /\ retryPc = "running"
    /\ WithinRetries(retries)
    /\ \E class \in ExceptionClasses \ CaughtByExecutor :
         /\ opCalls' = Append(opCalls, class)
         /\ retryPc' = "raised"
         /\ retryOutcome' = <<class, Len(opCalls) + 1>>
    /\ UNCHANGED <<policy, retries, delay, last_error, sleeps>>

NextRetry ==
    \/ RetryEnter
    \/ RetryCallReturns
    \/ RetryCallCaught
    \/ RetryCallEscapes

(***************************************************************************)
(* Part 3: SessionStorage, CookieManager, SessionStatusManager and         *)
(* SessionManager.apply_cookies_and_session.                               *)
(***************************************************************************)
Domains == {"d1", "d2"}

\* The identities fake_useragent draws from, and the one a new browser has.
UserAgents == {"UA1", "UA2"}
BrowserAgent == "UA0"

\* The cookie lists a session holds.
CookieLists == { <<>>, <<"c1">> }

MinSessionAge == 1800
DefaultExpiry == 86400
DefaultInitialDelay == 2
MaxItems == 10

\* The clock is read in whole seconds. Between two calls it advances by a
\* whole session age, by a second more than that, or by a whole storage TTL;
\* within a call it advances by the whole seconds of each sleep.
TickSizes == {MinSessionAge, MinSessionAge + 1, DefaultExpiry}
WholeSeconds(d) == d[1] \div d[2]

\* A dict of the cookie key space: the keys it has and their values. A value
\* of last_updated is <<"iso", t>> (an ISO timestamp), <<"garbled", 0>> (a
\* string fromisoformat rejects) or <<"none", 0>> (no value).
Dict(keys, cookies, ua, lu) ==
    [keys |-> keys, cookies |-> cookies, user_agent |-> ua, last_updated |-> lu]
Iso(t) == <<"iso", t>>
Garbled == <<"garbled", 0>>
NoStamp == <<"none", 0>>

\* {}
EmptyDict == Dict({}, <<>>, None, NoStamp)
\* {"cookies": []}
NoSession == Dict({"cookies"}, <<>>, None, NoStamp)
\* {"cookies": ..., "user_agent": ..., "last_updated": ...}
SessionDict(cookies, ua, lu) ==
    Dict({"cookies", "user_agent", "last_updated"}, cookies, ua, lu)

\* A key of the store: absent, or a value with the time its TTL runs out.
AbsentSlot == [present |-> FALSE, data |-> EmptyDict, expire_at |-> 0]
Held(slot) == slot.present /\ now < slot.expire_at

\* SessionStorage.save: set and expire; on a Redis error nothing is stored.
\* json.dumps / json.loads give back dicts of lists and strings as they were.
StorageSave(store, domain, data) ==
    IF storeUp
    THEN [store EXCEPT ![domain] =
             [present |-> TRUE, data |-> data, expire_at |-> now + DefaultExpiry]]
    ELSE store

\* SessionStorage.load: {} for a key that is absent, expired or unreadable.
StorageLoad(store, domain) ==
    IF storeUp /\ Held(store[domain]) THEN store[domain].data ELSE EmptyDict

\* SessionStorage.delete.
StorageDelete(store, domain) ==
    IF storeUp THEN [store EXCEPT ![domain] = AbsentSlot] ELSE store

\* SessionStorage.add_to_list: lpush, then ltrim to the max_items newest.
StorageAddToListUntrimmed(list, domain, data) ==
    IF storeUp THEN [list EXCEPT ![domain] = <<data>> \o @] ELSE list
StorageAddToList(list, domain, data) ==
    IF storeUp
    THEN [list EXCEPT ![domain] =
             SubSeq(<<data>> \o @, 1, IF Len(@) + 1 > MaxItems THEN MaxItems ELSE Len(@) + 1)]
    ELSE list

\* SessionStorage.get_list: [] for a list that is absent or unreadable.
StorageGetList(list, domain) == IF storeUp THEN list[domain] ELSE <<>>

\* What save, delete and add_to_list return: True when the Redis commands went
\* through (for delete: and removed a key), False from the exception handler.
StorageSaveResult == storeUp
StorageDeleteResult(store, domain) == storeUp /\ Held(store[domain])
StorageAddToListResult == storeUp

\* "not d" for a dict d.
Falsy(d) == d.keys = {}

\* CookieManager.is_session_expired.
IsSessionExpiredAtBoundary(data) ==
    \/ Falsy(data)
    \/ "last_updated" \notin data.keys
    \/ data.last_updated[1] # "iso"
    \/ now - data.last_updated[2] >= MinSessionAge
IsSessionExpired(data) ==
    \/ Falsy(data)
    \/ "last_updated" \notin data.keys
    \/ data.last_updated[1] # "iso"
    \/ now - data.last_updated[2] > MinSessionAge

\* CookieManager.load_cookies.
LoadCookies(domain) ==
    LET data == StorageLoad(cookieStore, domain)
    IN  IF IsSessionExpired(data) THEN NoSession ELSE data

\* The dict CookieManager.generate_new_session builds (and saves).
NewSession(ua) == SessionDict(<<>>, ua, Iso(now))

\* SessionStatusManager.update_status.
UpdateStatus(domain, status) ==
    StorageSave(statusStore, domain, [status |-> status, updated_at |-> now])

\* The status SessionStatusManager.get_status reports.
Unknown == <<"unknown", 0>>
Valid == <<"valid", 0>>
Invalid == <<"invalid", 0>>
StatusOf(domain) ==
    IF storeUp /\ Held(statusStore[domain])
    THEN statusStore[domain].data.status
    ELSE Unknown

\* f"failed_after_{max_retries}_retries"
ExhaustedStatusInvalid(n) == Invalid
ExhaustedStatus(n) == <<"failed_after", n>>

\* The exceptions the handler of apply_cookies_and_session catches.
ApplyCaught == {"WebDriverException", "SessionError", "TimeoutException"}

\* What a browser call made before the validation can raise: an automation
\* error, or an error of another class (a dead connection to the browser).
BrowserErrors == {"WebDriverException", "ConnectionError"}

\* "retries <= max_retries", in the loop condition and in the handler.
ApRetryAllowedStrict(r, n) == r < n
ApRetryAllowed(r, n) == r <= n

\* "if not success and last_error", the condition of record_error.
ShouldRecordErrorAlways(success, err) == err # None
ShouldRecordError(success, err) == ~success /\ err # None

\* "not session_data or not session_data.get('cookies')" on what was loaded.
NeedsNewSessionIfFalsy(session_data) == Falsy(session_data)
NeedsNewSession(session_data) == Falsy(session_data) \/ session_data.cookies = <<>>

ApIdle ==
    [domain |-> None, max_retries |-> 0, retries |-> 0, delay |-> <<0, 1>>,
     success |-> FALSE, last_error |-> None, pending |-> None,
     session_data |-> EmptyDict]

\* between is the calls the handler has made since the attempt that failed
\* last, in the order of the statements that make them.
HistIdle ==
    [validations |-> 0, lastValidation |-> "none", errorsAppended |-> 0,
     browserFaults |-> 0, sleeps |-> <<>>,
     loadHeld |-> FALSE, loadAged |-> FALSE, loadGenerated |-> FALSE,
     generated |-> 0, returned_at |-> 0, between |-> <<>>]

NoLoad == [domain |-> None, result |-> EmptyDict]

NoPrev == [ok |-> FALSE, user_agent |-> None, at |-> 0]

\* What another writer may have left under a domain's cookie key: nothing, a
\* session without last_updated, a session whose last_updated does not parse.
LegacySlots ==
    { AbsentSlot,
      [present |-> TRUE, expire_at |-> DefaultExpiry,
       data |-> Dict({"cookies", "user_agent"}, <<"c1">>, "UA1", NoStamp)],
      [present |-> TRUE, expire_at |-> DefaultExpiry,
       data |-> SessionDict(<<"c1">>, "UA1", Garbled)] }

SessionOff ==
    /\ now = 0
    /\ ticks = 0
    /\ calls = 0
    /\ storeUp = FALSE
    /\ cookieStore = [d \in Domains |-> AbsentSlot]
    /\ statusStore = [d \in Domains |-> AbsentSlot]
    /\ errorStore = [d \in Domains |-> <<>>]
    /\ driver = [user_agent |-> BrowserAgent]
    /\ apPc = "off"
    /\ ap = ApIdle
    /\ apHist = HistIdle
    /\ prevApply = [d \in Domains |-> NoPrev]
    /\ lastLoad = NoLoad

\* The cookie manager used on its own, over keys other writers may have left.
InitCookies ==
    /\ now = 0
    /\ ticks = 0
    /\ calls = 0
    /\ storeUp \in BOOLEAN
    /\ \E slot \in LegacySlots : cookieStore = [d \in Domains |-> slot]
    /\ statusStore = [d \in Domains |-> AbsentSlot]
    /\ errorStore = [d \in Domains |-> <<>>]
    /\ driver = [user_agent |-> BrowserAgent]
    /\ apPc = "idle"
    /\ ap = ApIdle
    /\ apHist = HistIdle
    /\ prevApply = [d \in Domains |-> NoPrev]
    /\ lastLoad = NoLoad

\* The session manager over an empty store (a key without a readable
\* last_updated loads as no session, like an absent key).
InitSession ==
    /\ now = 0
    /\ ticks = 0
    /\ calls = 0
    /\ storeUp \in BOOLEAN
    /\ cookieStore = [d \in Domains |-> AbsentSlot]
    /\ statusStore = [d \in Domains |-> AbsentSlot]
    /\ errorStore = [d \in Domains |-> <<>>]
    /\ driver = [user_agent |-> BrowserAgent]
    /\ apPc = "idle"
    /\ ap = ApIdle
    /\ apHist = HistIdle
    /\ prevApply = [d \in Domains |-> NoPrev]
    /\ lastLoad = NoLoad

\* The clock advances between two calls (time before the first call and after
\* the last one changes nothing that is read).
Tick ==
    /\ UNCHANGED nonSessionVars
    /\ apPc = "idle"
    /\ 0 < calls /\ calls < MaxCalls
    /\ ticks < MaxTicks
    /\ \E step \in TickSizes : now' = now + step
    /\ ticks' = ticks + 1
    /\ UNCHANGED <<calls, storeUp, cookieStore, statusStore, errorStore, driver,
                   apPc, ap, apHist, prevApply, lastLoad>>

\* CookieManager.save_cookies(domain, cookies, user_agent).
SaveCookiesCall(domain) ==
    /\ UNCHANGED nonSessionVars
    /\ apPc = "idle"
    /\ calls < MaxCalls
    /\ calls' = calls + 1
    /\ \E cookies \in CookieLists, ua \in UserAgents \cup {None} :
         cookieStore' = StorageSave(cookieStore, domain,
                                    SessionDict(cookies, ua, Iso(now)))
    /\ prevApply' = [prevApply EXCEPT ![domain] = NoPrev]
    /\ UNCHANGED <<now, ticks, storeUp, statusStore, errorStore, driver, apPc, ap,
                   apHist, lastLoad>>

\* CookieManager.load_cookies(domain), called on its own.
LoadCookiesCall(domain) ==
    /\ UNCHANGED nonSessionVars
    /\ apPc = "idle"
    /\ apPc' = "loaded"
    /\ lastLoad' = [domain |-> domain, result |-> LoadCookies(domain)]
    /\ UNCHANGED <<now, ticks, calls, storeUp, cookieStore, statusStore, errorStore,
                   driver, ap, apHist, prevApply>>

\* The caller has the loaded session and goes on.
LoadClose ==
    /\ UNCHANGED nonSessionVars
    /\ apPc = "loaded"
    /\ apPc' = "idle"
    /\ lastLoad' = NoLoad
    /\ UNCHANGED <<now, ticks, calls, storeUp, cookieStore, statusStore, errorStore,
                   driver, ap, apHist, prevApply>>

\* apply_cookies_and_session(driver, domain, max_retries) is entered with
\* max_retries = n, passed by the caller or taken from the retry policy.
ApplyStart(domain) ==
    /\ UNCHANGED nonSessionVars
    /\ apPc = "idle"
    /\ calls < MaxCalls
    /\ calls' = calls + 1
    /\ \E n \in 0..MaxApplyRetries :
         /\ ap' = [ApIdle EXCEPT !.domain = domain, !.max_retries = n,
                                 !.delay = <<DefaultInitialDelay, 1>>]
         /\ apPc' = IF ApRetryAllowed(0, n) THEN "try" ELSE "after"
    /\ apHist' = HistIdle
    /\ UNCHANGED <<now, ticks, storeUp, cookieStore, statusStore, errorStore, driver,
                   prevApply, lastLoad>>


\* The body of the try block of one attempt: load the session or generate one
\* with the identity ua, set the identity, read current_url (and navigate), add
\* the cookies (a cookie the browser refuses is skipped), validate. stage tells
\* where a browser call raised: "script" (execute_script), "url" (current_url
\* or get), or "none"; verdict is what the validator returns.
ApTryBody(ua, stage, verdict, pending, nextPc) ==
    LET d == ap.domain
        loaded == LoadCookies(d)
        needNew == NeedsNewSession(loaded)
        session == IF needNew THEN NewSession(ua) ELSE loaded
        validated == stage = "none"
        success == validated /\ verdict = "ok"
    IN  /\ stage = "script" => session.user_agent # None
        /\ cookieStore' = IF needNew THEN StorageSave(cookieStore, d, session)
                          ELSE cookieStore
        /\ driver' = [user_agent |-> IF session.user_agent # None /\ stage # "script"
                                     THEN session.user_agent ELSE driver.user_agent]
        /\ statusStore' = IF success THEN UpdateStatus(d, Valid) ELSE statusStore
        /\ ap' = [ap EXCEPT !.session_data = session, !.success = success,
                            !.pending = pending]
        /\ apHist' = [apHist EXCEPT
                        !.loadHeld = storeUp /\ Held(cookieStore[d]),
                        !.loadAged = IsSessionExpired(StorageLoad(cookieStore, d)),
                        !.loadGenerated = needNew,
                        !.generated = IF needNew THEN @ + 1 ELSE @,
                        !.validations = IF validated THEN @ + 1 ELSE @,
                        !.lastValidation = IF validated THEN verdict ELSE @,
                        !.browserFaults = IF validated THEN @ ELSE @ + 1]
        /\ apPc' = nextPc
        /\ UNCHANGED <<now, ticks, calls, storeUp, errorStore, prevApply, lastLoad>>

\* The attempt ends in a successful validation: status valid, the loop ends.
ApplyTryValid ==
    /\ UNCHANGED nonSessionVars
    /\ apPc = "try"
    /\ \E ua \in UserAgents:
         ApTryBody(ua, "none", "ok", None, "after")

\* The validator reports a blocked page: SessionError is raised and caught.
ApplyTryBlocked ==
    /\ UNCHANGED nonSessionVars
    /\ apPc = "try"
    /\ \E ua \in UserAgents:
         ApTryBody(ua, "none", "blocked", "SessionError", "except")

\* A browser call before the validation raises an exception the handler catches.
ApplyTryBrowserError ==
    /\ UNCHANGED nonSessionVars
    /\ apPc = "try"
    /\ \E ua \in UserAgents, stage \in {"script", "url"},
          class \in BrowserErrors \cap ApplyCaught :
         ApTryBody(ua, stage, "none", class, "except")

\* A browser call raises an exception of another class: it leaves the function.
ApplyTryPropagates ==
    /\ UNCHANGED nonSessionVars
    /\ apPc = "try"
    /\ \E ua \in UserAgents, stage \in {"script", "url"},
          class \in BrowserErrors \ ApplyCaught :
         ApTryBody(ua, stage, "none", class, "raised")

\* The handler: count the failure; either invalidate the session and go to
\* sleep, or mark the domain failed and leave the loop.
ApplyExcept ==
    /\ UNCHANGED nonSessionVars
    /\ apPc = "except"
    /\ LET d == ap.domain
           r == ap.retries + 1
       IN  /\ ap' = [ap EXCEPT !.last_error = ap.pending, !.retries = r,
                               !.pending = None]
           /\ IF ApRetryAllowed(r, ap.max_retries)
              THEN /\ cookieStore' = StorageDelete(cookieStore, d)
                   /\ statusStore' = UpdateStatus(d, Invalid)
                   /\ apHist' = [apHist EXCEPT
                                   !.between = <<"clear_cookies", "update_status">>]
                   /\ apPc' = "sleep"
              ELSE /\ statusStore' = UpdateStatus(d, ExhaustedStatus(ap.max_retries))
                   /\ apHist' = [apHist EXCEPT !.between = <<>>]
                   /\ apPc' = "after"
                   /\ UNCHANGED cookieStore
    /\ UNCHANGED <<now, ticks, calls, storeUp, errorStore, driver, prevApply,
                   lastLoad>>

\* time.sleep(delay) is over: the delay grows, a new session is generated and
\* the loop goes round.
ApplyWake ==
    /\ UNCHANGED nonSessionVars
    /\ apPc = "sleep"
    /\ now' = now + WholeSeconds(ap.delay)
    /\ \E ua \in UserAgents :
         LET session == SessionDict(<<>>, ua, Iso(now'))
         IN  /\ cookieStore' = [d \in Domains |->
                                  IF d = ap.domain /\ storeUp
                                  THEN [present |-> TRUE, data |-> session,
                                        expire_at |-> now' + DefaultExpiry]
                                  ELSE cookieStore[d]]
             /\ ap' = [ap EXCEPT !.delay = NextDelay(@), !.session_data = session]
    /\ apHist' = [apHist EXCEPT
                    !.sleeps = Append(@, ap.delay),
                    !.between = @ \o <<"sleep", "delay_multiplied",
                                       "generate_new_session">>]
    /\ apPc' = "try"
    /\ UNCHANGED <<ticks, calls, storeUp, statusStore, errorStore, driver,
                   prevApply, lastLoad>>

\* After the loop: the error is recorded unless the call succeeded, and the
\* driver is returned.
ApplyReturn ==
    /\ UNCHANGED nonSessionVars
    /\ apPc = "after"
    /\ IF ShouldRecordError(ap.success, ap.last_error)
       THEN /\ errorStore' = StorageAddToList(errorStore, ap.domain,
                                              <<ap.last_error, now>>)
            /\ apHist' = [apHist EXCEPT
                            !.errorsAppended = IF storeUp THEN @ + 1 ELSE @,
                            !.returned_at = now]
       ELSE /\ apHist' = [apHist EXCEPT !.returned_at = now]
            /\ UNCHANGED errorStore
    /\ apPc' = "returned"
    /\ UNCHANGED <<now, ticks, calls, storeUp, cookieStore, statusStore, driver, ap,
                   prevApply, lastLoad>>

\* The caller has the driver (or the exception) and goes on.
ApplyClose ==
    /\ UNCHANGED nonSessionVars
    /\ apPc \in {"returned", "raised"}
    /\ prevApply' = [prevApply EXCEPT ![ap.domain] =
                       IF apPc = "returned" /\ ap.success
                       THEN [ok |-> TRUE,
                             user_agent |-> ap.session_data.user_agent,
                             at |-> apHist.returned_at]
                       ELSE NoPrev]
    /\ apPc' = "idle"
    /\ ap' = ApIdle
    /\ apHist' = HistIdle
    /\ UNCHANGED <<now, ticks, calls, storeUp, cookieStore, statusStore, errorStore,
                   driver, lastLoad>>

NextCookies ==
    \/ Tick
    \/ \E domain \in Domains :
         \/ SaveCookiesCall(domain)
         \/ LoadCookiesCall(domain)
    \/ LoadClose

NextSession ==
    \/ Tick
    \/ \E domain \in Domains :
         \/ SaveCookiesCall(domain)
         \/ ApplyStart(domain)
    \/ ApplyTryValid
    \/ ApplyTryBlocked
    \/ ApplyTryBrowserError
    \/ ApplyTryPropagates
    \/ ApplyExcept
    \/ ApplyWake
    \/ ApplyReturn
    \/ ApplyClose

(***************************************************************************)
(* Part 4: SessionManager.with_session_retry.                              *)
(***************************************************************************)
\* RetryStrategy() as SessionManager.__init__ builds it: max_retries = 3.
DefaultMaxRetries == 3

\* The classes of exception func raises.
OpErrors == {"TimeoutException", "ValueError"}

\* update_status(domain, "error_during_execution")
ErrorDuringExecution == <<"error_during_execution", 0>>

\* A failure the handler of with_session_retry has caught: where it was raised
\* ("op": func, "apply": apply_cookies_and_session, "save": get_cookies or
\* execute_script after func returned), its class, and the number of
\* invocations of func made by then.
Failure(origin, class, k) == <<origin, class, k>>
NoFailure == <<"none", "None", 0>>

WrIdle ==
    [domain |-> None, max_retries |-> 0, retries |-> 0, delay |-> <<0, 1>>,
     last_error |-> NoFailure, pending |-> NoFailure]

WrHistIdle ==
    [invocations |-> <<>>, appliesBefore |-> <<>>, applies |-> 0,
     ownErrors |-> 0, sleeps |-> 0, saveFaults |-> 0, saved |-> NoSession,
     outcome |-> NoFailure, slept |-> <<>>]

\* "retries <= max_retries", in the loop condition and in the handler.
WrRetryAllowedStrict(r, n) == r < n
WrRetryAllowed(r, n) == r <= n

\* "if retries > 0": the session is applied again before func is called.
WrReappliesAlways(r) == TRUE
WrReapplies(r) == r > 0

WrOff ==
    /\ wrPc = "off"
    /\ wr = WrIdle
    /\ wrHist = WrHistIdle

InitWithRetry ==
    /\ InitSession
    /\ wrPc = "ready"
    /\ wr = WrIdle
    /\ wrHist = WrHistIdle

\* The nested call apply_cookies_and_session(driver, domain) is entered, with
\* the default max_retries.
WrEnterApply(domain) ==
    /\ ap' = [ApIdle EXCEPT !.domain = domain, !.max_retries = DefaultMaxRetries,
                            !.delay = <<DefaultInitialDelay, 1>>]
    /\ apPc' = IF ApRetryAllowed(0, DefaultMaxRetries) THEN "try" ELSE "after"
    /\ apHist' = HistIdle

\* with_session_retry(func, driver, domain, max_retries) is entered; the first
\* round of the loop begins.
WrStart(domain) ==
    /\ UNCHANGED nonWrVars
    /\ wrPc = "ready"
    /\ apPc = "idle"
    /\ \E n \in 0..MaxWrRetries :
         /\ wr' = [WrIdle EXCEPT !.domain = domain, !.max_retries = n,
                                 !.delay = <<DefaultInitialDelay, 1>>]
         /\ IF ~WrRetryAllowed(0, n)
            THEN /\ wrPc' = "returned"
                 /\ UNCHANGED <<ap, apPc, apHist>>
            ELSE IF WrReapplies(0)
            THEN /\ wrPc' = "applying"
                 /\ WrEnterApply(domain)
            ELSE /\ wrPc' = "invoke"
                 /\ UNCHANGED <<ap, apPc, apHist>>
    /\ wrHist' = [WrHistIdle EXCEPT !.applies = IF WrReapplies(0) THEN 1 ELSE 0]
    /\ UNCHANGED <<now, ticks, calls, storeUp, cookieStore, statusStore, errorStore,
                   driver, prevApply, lastLoad>>

\* The nested apply_cookies_and_session has returned the driver.
WrApplied ==
    /\ UNCHANGED nonWrVars
    /\ wrPc = "applying"
    /\ apPc = "returned"
    /\ apPc' = "idle"
    /\ ap' = ApIdle
    /\ apHist' = HistIdle
    /\ wrPc' = "invoke"
    /\ UNCHANGED <<now, ticks, calls, storeUp, cookieStore, statusStore, errorStore,
                   driver, prevApply, lastLoad, wr, wrHist>>

\* The nested apply_cookies_and_session was left by an exception it does not
\* catch: "except Exception" of with_session_retry catches it.
WrApplyRaised ==
    /\ UNCHANGED nonWrVars
    /\ wrPc = "applying"
    /\ apPc = "raised"
    /\ apPc' = "idle"
    /\ ap' = ApIdle
    /\ apHist' = HistIdle
    /\ wr' = [wr EXCEPT !.pending = Failure("apply", ap.pending, Len(wrHist.invocations))]
    /\ wrPc' = "except"
    /\ UNCHANGED <<now, ticks, calls, storeUp, cookieStore, statusStore, errorStore,
                   driver, prevApply, lastLoad, wrHist>>

\* func(driver=driver) is called and noted in the history.
Invoked(outcome) ==
    [wrHist EXCEPT !.invocations = Append(@, outcome),
                   !.appliesBefore = Append(@, wrHist.applies),
                   !.applies = 0]

\* func returns; driver.get_cookies() and navigator.userAgent are read and
\* saved with save_cookies; the result is returned.
WrInvokeOk ==
    /\ UNCHANGED nonWrVars
    /\ wrPc = "invoke"
    /\ \E cookies \in CookieLists :
         LET data == SessionDict(cookies, driver.user_agent, Iso(now))
         IN  /\ cookieStore' = StorageSave(cookieStore, wr.domain, data)
             /\ wrHist' = [Invoked("ok") EXCEPT
                             !.saved = data,
                             !.outcome = <<"value", "ok", Len(wrHist.invocations) + 1>>]
    /\ wrPc' = "returned"
    /\ UNCHANGED <<now, ticks, calls, storeUp, statusStore, errorStore, driver, apPc,
                   ap, apHist, prevApply, lastLoad, wr>>

\* func returns, but reading the cookies or the identity from the browser
\* raises: the handler takes it for a failure of the round.
WrSaveRaises ==
    /\ UNCHANGED nonWrVars
    /\ wrPc = "invoke"
    /\ wrHist' = [Invoked("ok") EXCEPT !.saveFaults = @ + 1]
    /\ wr' = [wr EXCEPT !.pending =
                 Failure("save", "WebDriverException", Len(wrHist.invocations) + 1)]
    /\ wrPc' = "except"
    /\ UNCHANGED <<sessionVars>>

\* func raises.
WrInvokeRaises ==
    /\ UNCHANGED nonWrVars
    /\ wrPc = "invoke"
    /\ \E class \in OpErrors :
         /\ wrHist' = Invoked(class)
         /\ wr' = [wr EXCEPT !.pending =
                      Failure("op", class, Len(wrHist.invocations) + 1)]
    /\ wrPc' = "except"
    /\ UNCHANGED <<sessionVars>>

\* The handler: count the failure; either clear the session, mark the domain
\* and go to sleep, or record the error and raise it.
WrExcept ==
    /\ UNCHANGED nonWrVars
    /\ wrPc = "except"
    /\ LET d == wr.domain
           r == wr.retries + 1
       IN  /\ wr' = [wr EXCEPT !.last_error = wr.pending, !.retries = r,
                               !.pending = NoFailure]
           /\ IF WrRetryAllowed(r, wr.max_retries)
              THEN /\ cookieStore' = StorageDelete(cookieStore, d)
                   /\ statusStore' = UpdateStatus(d, ErrorDuringExecution)
                   /\ wrPc' = "sleep"
                   /\ UNCHANGED <<errorStore, wrHist>>
              ELSE /\ errorStore' = StorageAddToList(errorStore, d,
                                                     <<wr.pending[2], now>>)
                   /\ wrHist' = [wrHist EXCEPT
                                   !.ownErrors = IF storeUp THEN @ + 1 ELSE @,
                                   !.outcome = wr.pending]
                   /\ wrPc' = "raised"
                   /\ UNCHANGED <<cookieStore, statusStore>>
    /\ UNCHANGED <<now, ticks, calls, storeUp, driver, apPc, ap, apHist, prevApply,
                   lastLoad>>

\* time.sleep(delay) is over: the delay grows and the next round of the loop
\* begins, with retries > 0.
WrWake ==
    /\ UNCHANGED nonWrVars
    /\ wrPc = "sleep"
    /\ now' = now + WholeSeconds(wr.delay)
    /\ wr' = [wr EXCEPT !.delay = NextDelay(@)]
    /\ IF WrReapplies(wr.retries)
       THEN /\ wrPc' = "applying"
            /\ WrEnterApply(wr.domain)
            /\ wrHist' = [wrHist EXCEPT !.sleeps = @ + 1, !.applies = @ + 1,
                                        !.slept = Append(@, wr.delay)]
       ELSE /\ wrPc' = "invoke"
            /\ wrHist' = [wrHist EXCEPT !.sleeps = @ + 1,
                                        !.slept = Append(@, wr.delay)]
            /\ UNCHANGED <<ap, apPc, apHist>>
    /\ UNCHANGED <<ticks, calls, storeUp, cookieStore, statusStore, errorStore,
                   driver, prevApply, lastLoad>>

NextWithRetry ==
    \/ \E domain \in Domains : WrStart(domain)
    \/ WrApplied
    \/ WrApplyRaised
    \/ WrInvokeOk
    \/ WrSaveRaises
    \/ WrInvokeRaises
    \/ WrExcept
    \/ WrWake
    \/ ApplyTryValid
    \/ ApplyTryBlocked
    \/ ApplyTryBrowserError
    \/ ApplyTryPropagates
    \/ ApplyExcept
    \/ ApplyWake
    \/ ApplyReturn

(***************************************************************************)
(* Part 5: SessionStatusManager.record_error and the error list.           *)
(***************************************************************************)
ErrOff == errAppended = [d \in Domains |-> <<>>]

InitErrors ==
    /\ InitSession
    /\ errAppended = [d \in Domains |-> <<>>]

\* SessionStatusManager.record_error(domain, error_message), one clock second
\* after the call before it (the timestamp tells the records apart).
RecordErrorCall(domain) ==
    /\ UNCHANGED nonErrVars
    /\ apPc = "idle"
    /\ calls < MaxAppends
    /\ calls' = calls + 1
    /\ now' = now + 1
    /\ LET data == <<"SessionError", now'>>
       IN  /\ errorStore' = StorageAddToList(errorStore, domain, data)
           /\ errAppended' = [errAppended EXCEPT ![domain] = Append(@, data)]
    /\ UNCHANGED <<ticks, storeUp, cookieStore, statusStore, driver, apPc, ap,
                   apHist, prevApply, lastLoad>>

NextErrors == \E domain \in Domains : RecordErrorCall(domain)

(***************************************************************************)
(* Part 6: the Redis keys of SessionStorage.                               *)
(***************************************************************************)
\* The domain strings callers pass.
KeyDomains == {"a", "b", "a:errors"}

\* self.cookie_base_key.format(domain), self.status_base_key.format(domain)
\* and f"{self.status_base_key.format(domain)}:errors".
CookieKey(domain) == "crawler:cookies:" \o domain
StatusKey(domain) == "crawler:status:" \o domain
ErrorsKey(domain) == StatusKey(domain) \o ":errors"

AllKeys ==
    {CookieKey(d) : d \in KeyDomains} \cup {StatusKey(d) : d \in KeyDomains}
        \cup {ErrorsKey(d) : d \in KeyDomains}

\* A value of the keyspace: none, a string (the JSON of a dict) or a list.
NoData == <<"none", 0>>
NoValue == [kind |-> "none", str |-> NoData, items |-> <<>>]
StringValue(data) == [kind |-> "string", str |-> data, items |-> <<>>]
ListValue(items) == [kind |-> "list", str |-> NoData, items |-> items]

\* SessionStorage.save on a key: SET replaces a value of any kind.
KvSave(key, data) == [redis EXCEPT ![key] = StringValue(data)]

\* SessionStorage.load on a key: GET of a list raises WRONGTYPE, the handler
\* returns {}.
KvLoad(key) == IF redis[key].kind = "string" THEN redis[key].str ELSE NoData

\* SessionStorage.delete on a key: DEL removes a value of any kind.
KvDelete(key) == [redis EXCEPT ![key] = NoValue]

\* SessionStorage.add_to_list on a key: LPUSH on a string raises WRONGTYPE and
\* the handler returns False; else the record is put first and the list
\* trimmed.
KvAddToList(key, data) ==
    IF redis[key].kind = "string"
    THEN redis
    ELSE [redis EXCEPT ![key] =
             ListValue(SubSeq(<<data>> \o @.items, 1,
                              IF Len(@.items) + 1 > MaxItems THEN MaxItems
                              ELSE Len(@.items) + 1))]

\* SessionStorage.get_list on a key: LRANGE of a string raises WRONGTYPE, the
\* handler returns [].
KvGetList(key) == IF redis[key].kind = "list" THEN redis[key].items ELSE <<>>

\* What the store holds for a domain.
KvSessionOf(domain) == KvLoad(CookieKey(domain))
KvStatusOf(domain) == KvLoad(StatusKey(domain))
KvErrorsOf(domain) == KvGetList(ErrorsKey(domain))

NoOp == [op |-> None, domain |-> None]

InitKeys ==
    /\ redis = [k \in AllKeys |-> NoValue]
    /\ kvLast = NoOp
    /\ kvCalls = 0

\* save_cookies / generate_new_session: storage.save("cookie", domain, data).
KvSaveCookies(domain) ==
    /\ UNCHANGED nonKvVars
    /\ kvCalls < MaxKvCalls
    /\ redis' = KvSave(CookieKey(domain), <<"cookie", kvCalls + 1>>)
    /\ kvLast' = [op |-> "save_cookies", domain |-> domain]
    /\ kvCalls' = kvCalls + 1

\* clear_cookies: storage.delete("cookie", domain).
KvClearCookies(domain) ==
    /\ UNCHANGED nonKvVars
    /\ kvCalls < MaxKvCalls
    /\ redis' = KvDelete(CookieKey(domain))
    /\ kvLast' = [op |-> "clear_cookies", domain |-> domain]
    /\ kvCalls' = kvCalls + 1

\* update_status: storage.save("status", domain, data).
KvUpdateStatus(domain) ==
    /\ UNCHANGED nonKvVars
    /\ kvCalls < MaxKvCalls
    /\ redis' = KvSave(StatusKey(domain), <<"status", kvCalls + 1>>)
    /\ kvLast' = [op |-> "update_status", domain |-> domain]
    /\ kvCalls' = kvCalls + 1

\* record_error: storage.add_to_list("errors", domain, data).
KvRecordError(domain) ==
    /\ UNCHANGED nonKvVars
    /\ kvCalls < MaxKvCalls
    /\ redis' = KvAddToList(ErrorsKey(domain), <<"error", kvCalls + 1>>)
    /\ kvLast' = [op |-> "record_error", domain |-> domain]
    /\ kvCalls' = kvCalls + 1

NextKeys ==
    \E domain \in KeyDomains :
        \/ KvSaveCookies(domain)
        \/ KvClearCookies(domain)
        \/ KvUpdateStatus(domain)
        \/ KvRecordError(domain)

(***************************************************************************)
(* Part 7: driver initialisation, search_with_anti_robot and the save      *)
(* after a successful search.                                              *)
(***************************************************************************)
SearchDomain == "google.com"
Orchestrators == {"AntiRobotSearch", "AntiRobotGoogleSearch"}
Initialisers == {"init_driver", "_init_driver_without_retry"}

\* Python values that end up in a key or in a stored record, in one shape:
\* a str, a browser object, the cookie list and the identity of a browser.
Str(s) == <<"str", s, 0>>
DriverObj(b) == <<"driver", "", b>>
CookieList(b) == <<"cookies", "", b>>
UserAgentOf(b) == <<"user_agent", "", b>>
NoneValue == <<"None", "", 0>>

\* Browsers are numbered in the order they are created; -1 is the browser of
\* an earlier run.
MaxBrowser == 2 * RecursionLimit + 3
StoreArgs == {Str(SearchDomain)} \cup {DriverObj(b) : b \in 0..MaxBrowser}
NoStoredSession == [cookies |-> NoneValue, user_agent |-> NoneValue]
EarlierSession == [cookies |-> CookieList(0 - 1), user_agent |-> UserAgentOf(0 - 1)]

\* CookieManager.save_cookies(domain, cookies, user_agent): the record goes
\* under the key formatted with its first argument.
CookieSave(store, domain, cookies, user_agent, up) ==
    IF up
    THEN [store EXCEPT ![domain] = [cookies |-> cookies,
                                    user_agent |-> user_agent]]
    ELSE store

\* SeleniumSessionManager.save_cookies():
\*   self.session_manager.save_cookies(self.driver, self.domain)
SeleniumSaveCookies(store, handle, domain, up) ==
    CookieSave(store, DriverObj(handle), Str(domain), NoneValue, up)

\* SessionManager.clear_cookies(domain)
SearchClearCookies(store, domain, up) ==
    IF up THEN [store EXCEPT ![Str(domain)] = NoStoredSession] ELSE store

SwIdle ==
    [orchestrator |-> "AntiRobotSearch", initialiser |-> "init_driver",
     managerDriver |-> 0, driver |-> 0, created |-> 0, depth |-> 0,
     restarts |-> 0, postRestarts |-> 0, searches |-> 0, blocks |-> 0,
     records |-> 0, layer |-> <<>>, result |-> "none", saveOk |-> FALSE,
     operated |-> {}]

SearchOff ==
    /\ sPc = "off"
    /\ sw = SwIdle
    /\ sStore = [a \in StoreArgs |-> NoStoredSession]

InitSearch ==
    /\ sPc = "new"
    /\ \E o \in Orchestrators, i \in Initialisers :
           sw = [SwIdle EXCEPT !.orchestrator = o, !.initialiser = i]
    /\ \E stored \in {NoStoredSession, EarlierSession} :
           sStore = [a \in StoreArgs |->
                        IF a = Str(SearchDomain) THEN stored ELSE NoStoredSession]

\* The workflow's history at the current call of search_with_anti_robot.
Logged(s, event) == [s EXCEPT !.layer = Append(@, event)]

\* A detection: is_robot_page() returned true.
Detected(s) == [s EXCEPT !.blocks = @ + 1]

\* chrome_option_setting(chrome_prefs) after self.driver.quit(): the session
\* manager's browser is replaced.
ManagerReplaced(s) ==
    [s EXCEPT !.managerDriver = s.created + 1, !.driver = s.created + 1,
              !.created = @ + 1]

\* restart_session(): the orchestrator's browser is quit and replaced, the
\* session manager keeps the handle it had.
Restarted(s) ==
    [s EXCEPT !.driver = s.created + 1, !.created = @ + 1, !.restarts = @ + 1]

Returned(s, value) == [s EXCEPT !.result = value]

\* SeleniumSessionManager.init_driver, up to the validation page:
\* apply_cookies_and_session returns the driver whether or not the session
\* was validated (it records one error when it was not), or raises.
InitDriverApply(outcome) ==
    /\ UNCHANGED nonSearchVars
    /\ sPc = "new"
    /\ sw.initialiser = "init_driver"
    /\ sw' = [sw EXCEPT !.records = IF outcome = "failed" THEN @ + 1 ELSE @]
    /\ sPc' = IF outcome = "raised" THEN "initial_get" ELSE "init_check"
    /\ UNCHANGED sStore

\* GoogleSeleniumMovingElementLocation._init_driver_without_retry, up to the
\* captcha check: the stored cookies are loaded once and applied.
InitDriverLoad(loaded) ==
    /\ UNCHANGED nonSearchVars
    /\ sPc = "new"
    /\ sw.initialiser = "_init_driver_without_retry"
    /\ loaded => sStore[Str(SearchDomain)] # NoStoredSession
    /\ sPc' = IF loaded THEN "init_check" ELSE "initial_get"
    /\ UNCHANGED <<sw, sStore>>

\* The check of both initialisers: on a blocked page the stored session is
\* deleted and the browser replaced.
InitDriverCheck(blocked, up) ==
    /\ UNCHANGED nonSearchVars
    /\ sPc = "init_check"
    /\ sPc' = "initial_get"
    /\ IF blocked
       THEN /\ sw' = ManagerReplaced(Detected(sw))
            /\ sStore' = SearchClearCookies(sStore, SearchDomain, up)
       ELSE /\ up
            /\ UNCHANGED <<sw, sStore>>

\* search_with_anti_robot: self.driver.get(url); is_robot_page()
InitialNav(blocked) ==
    /\ UNCHANGED nonSearchVars
    /\ sPc = "initial_get"
    /\ sw' = IF blocked THEN Logged(Detected(sw), "get_blocked")
                        ELSE Logged(sw, "get_clear")
    /\ sPc' = IF blocked THEN "initial_restart" ELSE "search_box"
    /\ UNCHANGED sStore

\* if self.restart_session(): ... else: ...
InitialRestart(ok) ==
    /\ UNCHANGED nonSearchVars
    /\ sPc = "initial_restart"
    /\ sw' = IF ok THEN Logged(Restarted(sw), "restart_ok")
                   ELSE Logged(sw, "restart_failed")
    /\ sPc' = IF ok THEN "initial_renav" ELSE "handle"
    /\ UNCHANGED sStore

\* Where the workflow goes after the page was fetched again with the new
\* session.
AfterRenavIgnoringBlock(blocked) == "search_box"

AfterRenav(blocked) == IF blocked THEN "returned" ELSE "search_box"

\* self.driver.get(url); if is_robot_page(): return False
InitialRenav(blocked) ==
    /\ UNCHANGED nonSearchVars
    /\ sPc = "initial_renav"
    /\ LET next == AfterRenav(blocked)
           seen == IF blocked THEN Logged(Detected(sw), "get_blocked")
                              ELSE Logged(sw, "get_clear")
       IN  /\ sPc' = next
           /\ sw' = IF next = "returned" THEN Returned(seen, "False") ELSE seen
    /\ UNCHANGED sStore

\* if not self.human_like.handle_robot_detection(): return False
HandleDetection(ok) ==
    /\ UNCHANGED nonSearchVars
    /\ sPc = "handle"
    /\ sw' = IF ok THEN Logged(sw, "handle_ok")
                   ELSE Returned(Logged(sw, "handle_failed"), "False")
    /\ sPc' = IF ok THEN "handle_renav" ELSE "returned"
    /\ UNCHANGED sStore

\* self.driver.get(url); if is_robot_page(): return False
HandleRenav(blocked) ==
    /\ UNCHANGED nonSearchVars
    /\ sPc = "handle_renav"
    /\ sw' = IF blocked
             THEN Returned(Logged(Detected(sw), "get_blocked"), "False")
             ELSE Logged(sw, "get_clear")
    /\ sPc' = IF blocked THEN "returned" ELSE "search_box"
    /\ UNCHANGED sStore

\* The search step: AntiRobotSearch looks for a search box and returns False
\* when there is none; AntiRobotGoogleSearch calls human_like_search.
SearchStep(found) ==
    /\ UNCHANGED nonSearchVars
    /\ sPc = "search_box"
    /\ found \/ sw.orchestrator = "AntiRobotSearch"
    /\ sw' = IF found
             THEN Logged([sw EXCEPT !.searches = @ + 1], "search")
             ELSE Returned(Logged(sw, "search_box_missing"), "False")
    /\ sPc' = IF found THEN "post_check" ELSE "returned"
    /\ UNCHANGED sStore

\* if self.human_like.is_robot_page(): ... ; return True
PostSearchCheck(blocked) ==
    /\ UNCHANGED nonSearchVars
    /\ sPc = "post_check"
    /\ sw' = IF blocked THEN Logged(Detected(sw), "post_blocked")
                        ELSE Returned(Logged(sw, "post_clear"), "True")
    /\ sPc' = IF blocked THEN "post_restart" ELSE "returned"
    /\ UNCHANGED sStore

\* if self.restart_session(): AntiRobotSearch returns what a new call of
\* search_with_anti_robot returns (the interpreter's recursion limit ends the
\* nesting: the RecursionError is caught and False returned);
\* AntiRobotGoogleSearch fetches and searches once more in line.
PostSearchRestart(ok) ==
    /\ UNCHANGED nonSearchVars
    /\ sPc = "post_restart"
    /\ LET again == [Restarted(sw) EXCEPT !.postRestarts = @ + 1]
       IN  IF ~ok
           THEN /\ sw' = Returned(Logged(sw, "restart_failed"), "False")
                /\ sPc' = "returned"
           ELSE IF sw.orchestrator = "AntiRobotGoogleSearch"
           THEN /\ sw' = Logged(again, "restart_ok")
                /\ sPc' = "retry_search"
           ELSE IF sw.depth < RecursionLimit
           THEN /\ sw' = [again EXCEPT !.depth = @ + 1, !.layer = <<>>]
                /\ sPc' = "initial_get"
           ELSE /\ sw' = Returned(Logged(again, "recursion_limit"), "False")
                /\ sPc' = "returned"
    /\ UNCHANGED sStore

\* AntiRobotGoogleSearch: self.driver.get(url); human_like_search(keyword);
\* if is_robot_page(): return False
RetrySearch(blocked) ==
    /\ UNCHANGED nonSearchVars
    /\ sPc = "retry_search"
    /\ LET searched == [sw EXCEPT !.searches = @ + 1]
       IN  sw' = IF blocked
                 THEN Returned(Logged(Detected(searched), "retry_blocked"),
                               "False")
                 ELSE Returned(Logged(searched, "retry_clear"), "True")
    /\ sPc' = "returned"
    /\ UNCHANGED sStore

InWorkflow ==
    {"initial_get", "initial_restart", "initial_renav", "handle",
     "handle_renav", "search_box", "post_check", "post_restart",
     "retry_search"}

\* except ...: return False
SearchRaises ==
    /\ UNCHANGED nonSearchVars
    /\ sPc \in InWorkflow
    /\ sw' = Returned(Logged(sw, "raised"), "False")
    /\ sPc' = "returned"
    /\ UNCHANGED sStore

\* if search_success: self.save_cookies()
SaveAfterSuccess(up) ==
    /\ UNCHANGED nonSearchVars
    /\ sPc = "returned"
    /\ sw.result = "True"
    /\ sStore' = SeleniumSaveCookies(sStore, sw.managerDriver, SearchDomain, up)
    /\ sw' = [sw EXCEPT !.saveOk = up]
    /\ sPc' = "saved"

\* else: the session is not saved
NoSaveAfterFailure ==
    /\ UNCHANGED nonSearchVars
    /\ sPc = "returned"
    /\ sw.result = "False"
    /\ sPc' = "not_saved"
    /\ UNCHANGED <<sw, sStore>>

\* scroll_through_pages: the crawler clicks, reads page_source and scrolls
\* with self.driver, the handle the initialiser returned, and closes it.
\* operated is the set of handles these operations went to.
ScrollThroughPages ==
    /\ UNCHANGED nonSearchVars
    /\ sPc \in {"saved", "not_saved"}
    /\ sw.operated = {}
    /\ sw' = [sw EXCEPT !.operated = {sw.managerDriver}]
    /\ UNCHANGED <<sPc, sStore>>

NextSearch ==
    \/ \E outcome \in {"valid", "failed", "raised"} : InitDriverApply(outcome)
    \/ \E loaded \in BOOLEAN : InitDriverLoad(loaded)
    \/ \E blocked \in BOOLEAN, up \in BOOLEAN : InitDriverCheck(blocked, up)
    \/ \E blocked \in BOOLEAN : InitialNav(blocked)
    \/ \E ok \in BOOLEAN : InitialRestart(ok)
    \/ \E blocked \in BOOLEAN : InitialRenav(blocked)
    \/ \E ok \in BOOLEAN : HandleDetection(ok)
    \/ \E blocked \in BOOLEAN : HandleRenav(blocked)
    \/ \E found \in BOOLEAN : SearchStep(found)
    \/ \E blocked \in BOOLEAN : PostSearchCheck(blocked)
    \/ \E ok \in BOOLEAN : PostSearchRestart(ok)
    \/ \E blocked \in BOOLEAN : RetrySearch(blocked)
    \/ SearchRaises
    \/ \E up \in BOOLEAN : SaveAfterSuccess(up)
    \/ NoSaveAfterFailure
    \/ ScrollThroughPages

(***************************************************************************)
(* Part 8: HumanLikeAsyncWebCrawler, the crawl driven by one browser.      *)
(***************************************************************************)
NoBrowser == 0
NoPage == 0

HIdle == [t \in Tasks |-> "absent"]

BrowseOff ==
    /\ hCfg = [num_tasks |-> 0, max_pages |-> 0, max_depth |-> 0]
    /\ hPc = HIdle
    /\ hCur = [t \in Tasks |-> None]
    /\ hQueue = <<>>
    /\ hVisited = {}
    /\ hBrowser = [driver |-> NoBrowser, page |-> NoPage, created |-> 0]
    /\ hLast = [op |-> "none", task |-> 0, n |-> 0]
    /\ hHist = [fetches |-> [u \in Urls |-> 0], raised |-> {}, closes |-> {}]

\* HumanLikeAsyncWebCrawler(...) followed by run(num_tasks): the tasks are
\* created, none has run yet.
InitBrowse ==
    /\ \E n \in Tasks, p \in 1..MaxPagesBound, d \in 0..MaxDepthBound :
           /\ hCfg = [num_tasks |-> n, max_pages |-> p, max_depth |-> d]
           /\ hPc = [t \in Tasks |-> IF t <= n THEN "start" ELSE "absent"]
    /\ hCur = [t \in Tasks |-> None]
    /\ hQueue = << <<start_url, 0>> >>
    /\ hVisited = {}
    /\ hBrowser = [driver |-> NoBrowser, page |-> NoPage, created |-> 0]
    /\ hLast = [op |-> "none", task |-> 0, n |-> 0]
    /\ hHist = [fetches |-> [u \in Urls |-> 0], raised |-> {}, closes |-> {}]

\* The loop condition of crawl().
HLoopCondition ==
    hQueue # <<>> /\ Cardinality(hVisited) < hCfg.max_pages

\* A task at the top of its loop; the first time round setup_driver() has
\* just run, and it does not suspend.
AtLoop(t) == hPc[t] \in {"start", "loop"}

\* Between dequeuing an entry and finishing its processing.
Processing(t) == hPc[t] \in {"sleep", "loading"}

\* setup_driver(): "if not self.driver: self.driver = init_driver(...)"
SetUp(b) ==
    IF b.driver = NoBrowser
    THEN [driver |-> b.created + 1, page |-> NoPage, created |-> b.created + 1]
    ELSE b

\* The browser operations made, the last one named.
Operated(last, op, t, b) ==
    [op |-> op, task |-> t,
     n |-> last.n + 1 + (IF b.driver = NoBrowser THEN 1 ELSE 0)]

\* The top of crawl() when setup_driver() creates the browser and the loop
\* goes on: what changes of the browser.
HSetUpAtStart(t) ==
    IF hPc[t] = "start" /\ hBrowser.driver = NoBrowser
    THEN /\ hBrowser' = SetUp(hBrowser)
         /\ hLast' = [op |-> "create", task |-> t, n |-> hLast.n + 1]
    ELSE UNCHANGED <<hBrowser, hLast>>

\* The entry at the head of the queue is discarded: visited, too deep, or
\* rejected by is_relevant_url.
HDequeueSkip(t, relevantUrl) ==
    /\ UNCHANGED nonBrowseVars
    /\ UNCHANGED hHist
    /\ AtLoop(t)
    /\ HLoopCondition
    /\ LET u == Head(hQueue)[1]
           depth == Head(hQueue)[2]
       IN  \/ u \in hVisited
           \/ depth > hCfg.max_depth
           \/ ~relevantUrl /\ depth > 0
    /\ hQueue' = Tail(hQueue)
    /\ hPc' = [hPc EXCEPT ![t] = "loop"]
    /\ HSetUpAtStart(t)
    /\ UNCHANGED <<hCfg, hCur, hVisited>>

\* The entry is accepted and marked visited; the task sleeps one to three
\* seconds before it turns to the browser.
HDequeueFetch(t) ==
    /\ UNCHANGED nonBrowseVars
    /\ UNCHANGED hHist
    /\ AtLoop(t)
    /\ HLoopCondition
    /\ LET u == Head(hQueue)[1]
           depth == Head(hQueue)[2]
       IN  /\ u \notin hVisited
           /\ depth <= hCfg.max_depth
           /\ hVisited' = hVisited \cup {u}
           /\ hCur' = [hCur EXCEPT ![t] = <<u, depth>>]
    /\ hQueue' = Tail(hQueue)
    /\ hPc' = [hPc EXCEPT ![t] = "sleep"]
    /\ HSetUpAtStart(t)
    /\ UNCHANGED hCfg

\* close_driver() of the crawler and of its session manager, on the browser
\* record: the reference is None afterwards.
CloseDriverKept(b) == b

CloseDriver(b) == [b EXCEPT !.driver = NoBrowser, !.page = NoPage]

\* The calls SeleniumSessionManager.close_driver makes on the browser it
\* holds, in the order of its statements; quit() returns or raises.
CloseSteps(quitOk) ==
    <<"save_session", IF quitOk THEN "quit" ELSE "quit_raised", "driver_none">>

\* The finally clause of crawl(): "if self.driver:" the browser b is closed.
HFinally(t, b) ==
    IF b.driver # NoBrowser
    THEN /\ hBrowser' = CloseDriver(b)
         /\ hLast' = Operated(hLast, "close", t, hBrowser)
         /\ \E quitOk \in BOOLEAN :
                hHist' = [hHist EXCEPT
                            !.closes = @ \cup {<<b.driver, CloseSteps(quitOk)>>}]
    ELSE UNCHANGED <<hBrowser, hLast, hHist>>

\* The loop condition is false: the loop ends and the finally clause runs.
HLoopExit(t) ==
    /\ UNCHANGED nonBrowseVars
    /\ AtLoop(t)
    /\ ~HLoopCondition
    /\ hPc' = [hPc EXCEPT ![t] = "done"]
    /\ HFinally(t, IF hPc[t] = "start" THEN SetUp(hBrowser) ELSE hBrowser)
    /\ UNCHANGED <<hCfg, hCur, hQueue, hVisited>>

\* get_page_with_selenium: setup_driver(), self.driver.get(url), then the
\* task sleeps two to five seconds while the page loads.
HNavigate(t) ==
    /\ UNCHANGED nonBrowseVars
    /\ hPc[t] = "sleep"
    /\ hBrowser' = [SetUp(hBrowser) EXCEPT !.page = hCur[t][1]]
    /\ hLast' = Operated(hLast, "navigate", t, hBrowser)
    /\ hPc' = [hPc EXCEPT ![t] = "loading"]
    /\ hHist' = [hHist EXCEPT !.fetches[hCur[t][1]] = @ + 1]
    /\ UNCHANGED <<hCfg, hCur, hQueue, hVisited>>

\* self.driver.get(url) raises: get_page_with_selenium returns None and the
\* loop goes on.
HNavigateFails(t) ==
    /\ UNCHANGED nonBrowseVars
    /\ hPc[t] = "sleep"
    /\ hBrowser' = SetUp(hBrowser)
    /\ hLast' = Operated(hLast, "navigate", t, hBrowser)
    /\ hPc' = [hPc EXCEPT ![t] = "loop"]
    /\ hCur' = [hCur EXCEPT ![t] = None]
    /\ hHist' = [hHist EXCEPT !.fetches[hCur[t][1]] = @ + 1,
                              !.raised = @ \cup {hCur[t][1]}]
    /\ UNCHANGED <<hCfg, hQueue, hVisited>>

\* After the wait: scroll, mouse movement, return self.driver.page_source
\* (None when the browser is gone: the AttributeError is caught), then the
\* content gate and the links of the page.
HRead(t, relevantContent, new_links) ==
    /\ UNCHANGED nonBrowseVars
    /\ UNCHANGED hHist
    /\ hPc[t] = "loading"
    /\ LET depth == hCur[t][2]
           content == hBrowser.driver # NoBrowser
       IN  IF /\ content
              /\ depth = 0 \/ relevantContent
              /\ depth < hCfg.max_depth
           THEN \E order \in Orders({ l \in new_links : l \notin hVisited }) :
                    hQueue' = hQueue \o
                        [i \in 1..Len(order) |-> <<order[i], depth + 1>>]
           ELSE /\ new_links = {}
                /\ UNCHANGED hQueue
    /\ hPc' = [hPc EXCEPT ![t] = "loop"]
    /\ hCur' = [hCur EXCEPT ![t] = None]
    /\ UNCHANGED <<hCfg, hVisited, hBrowser, hLast>>

\* The page was read, and building the soup or parsing the links raises: the
\* exception leaves the loop through the finally clause and ends the task.
HProcessRaises(t) ==
    /\ UNCHANGED nonBrowseVars
    /\ hPc[t] = "loading"
    /\ hBrowser.driver # NoBrowser
    /\ hPc' = [hPc EXCEPT ![t] = "crashed"]
    /\ hCur' = [hCur EXCEPT ![t] = None]
    /\ HFinally(t, hBrowser)
    /\ UNCHANGED <<hCfg, hQueue, hVisited>>

NextBrowse ==
    \E t \in Tasks :
        \/ \E relevantUrl \in BOOLEAN : HDequeueSkip(t, relevantUrl)
        \/ HDequeueFetch(t)
        \/ HLoopExit(t)
        \/ HNavigate(t)
        \/ HNavigateFails(t)
        \/ \E relevantContent \in BOOLEAN, new_links \in SUBSET Urls :
               HRead(t, relevantContent, new_links)
        \/ HProcessRaises(t)

(***************************************************************************)
(* Part 9: RobotDetector.                                                  *)
(***************************************************************************)
\* Elements a page can hold that the detector's selectors look for.
CaptchaElements == {"g-recaptcha", "h-captcha", "#captcha", "form-challenge"}

\* What the browser shows, as far as the detector reads it: whether the page
\* source holds an indicator word, the elements above, whether the URL holds
\* "captcha" or "challenge", whether an important element holds a robot
\* phrase, whether the body text speaks of unusual traffic, and whether the
\* browser answers at all (it raises a Selenium error when not).
Pages ==
    [source : BOOLEAN, elements : SUBSET CaptchaElements, url : BOOLEAN,
     phrase : BOOLEAN, traffic : BOOLEAN, readable : BOOLEAN]

BlankPage ==
    [source |-> FALSE, elements |-> {}, url |-> FALSE, phrase |-> FALSE,
     traffic |-> FALSE, readable |-> TRUE]

\* RobotDetector.is_robot_page()
IsRobotPage(p) ==
    IF ~p.readable THEN FALSE
    ELSE \/ p.source
         \/ p.elements \cap {"g-recaptcha", "#captcha", "form-challenge"} # {}
         \/ p.url
         \/ p.phrase

\* RobotDetector.get_detected_type()
GetDetectedType(p) ==
    IF ~p.readable THEN "None"
    ELSE IF "g-recaptcha" \in p.elements THEN "recaptcha"
    ELSE IF "h-captcha" \in p.elements THEN "hcaptcha"
    ELSE IF "#captcha" \in p.elements THEN "captcha"
    ELSE IF p.traffic THEN "ip_block"
    ELSE IF IsRobotPage(p) THEN "unknown"
    ELSE "None"

\* What a call of the detector does to the browser: it reads page_source,
\* find_elements, current_url and element texts, and writes nothing.
AfterDetectionNavigated(b) == [b EXCEPT !.url = TRUE]

AfterDetection(b) == b

DetectOff ==
    /\ dBrowser = BlankPage
    /\ dCalls = <<>>
    /\ dEpoch = 0

InitDetect ==
    /\ dBrowser \in Pages
    /\ dCalls = <<>>
    /\ dEpoch = 0

\* is_robot_page() is called.
IsRobotPageCall ==
    /\ UNCHANGED nonDetectVars
    /\ Len(dCalls) < MaxDetectorCalls
    /\ dCalls' = Append(dCalls,
                        [op |-> "is_robot_page",
                         result |-> IF IsRobotPage(dBrowser) THEN "True"
                                                             ELSE "False",
                         epoch |-> dEpoch])
    /\ dBrowser' = AfterDetection(dBrowser)
    /\ UNCHANGED dEpoch

\* get_detected_type() is called.
GetDetectedTypeCall ==
    /\ UNCHANGED nonDetectVars
    /\ Len(dCalls) < MaxDetectorCalls
    /\ dCalls' = Append(dCalls,
                        [op |-> "get_detected_type",
                         result |-> GetDetectedType(dBrowser),
                         epoch |-> dEpoch])
    /\ dBrowser' = AfterDetection(dBrowser)
    /\ UNCHANGED dEpoch

\* Something other than the detector changes what the browser shows: a
\* navigation, a script of the page, the browser failing or recovering.
PageChanges(p) ==
    /\ UNCHANGED nonDetectVars
    /\ dEpoch < MaxPageChanges
    /\ p # dBrowser
    /\ dBrowser' = p
    /\ dEpoch' = dEpoch + 1
    /\ UNCHANGED dCalls

NextDetect ==
    \/ IsRobotPageCall
    \/ GetDetectedTypeCall
    \/ \E p \in {BlankPage, [BlankPage EXCEPT !.source = TRUE],
                 [BlankPage EXCEPT !.readable = FALSE]} : PageChanges(p)

(***************************************************************************)
(* Part 10: RelevantAsyncWebCrawler.is_relevant_content.                   *)
(***************************************************************************)
\* Similarities and thresholds are counted in steps of 1 / SimSteps between
\* 0 and 1.
SimValues == 0..SimSteps

\* What the TF-IDF step yields for a page: the cosine similarity, or an
\* exception (then the substring test on the text decides).
Computed(sim) == [content |-> TRUE, raised |-> FALSE, sim |-> sim, keywordInText |-> FALSE]
Failed(inText) == [content |-> TRUE, raised |-> TRUE, sim |-> 0, keywordInText |-> inText]
NoContent == [content |-> FALSE, raised |-> FALSE, sim |-> 0, keywordInText |-> FALSE]

ContentInputs ==
    {NoContent} \cup {Computed(sim) : sim \in SimValues}
                \cup {Failed(inText) : inText \in BOOLEAN}

\* return cosine_sim >= self.relevance_threshold
AboveThresholdStrict(sim, threshold) == sim > threshold

AboveThreshold(sim, threshold) == sim >= threshold

\* is_relevant_content(content, title)
IsRelevantContent(page, threshold) ==
    IF ~page.content THEN FALSE
    ELSE IF page.raised THEN page.keywordInText
    ELSE AboveThreshold(page.sim, threshold)

RelevanceOff ==
    /\ rcThreshold = 0
    /\ rcCalls = <<>>

InitRelevance ==
    /\ rcThreshold \in SimValues
    /\ rcCalls = <<>>

IsRelevantContentCall(page) ==
    /\ UNCHANGED nonRelevanceVars
    /\ Len(rcCalls) < MaxContentCalls
    /\ rcCalls' = Append(rcCalls, [page |-> page,
                                   accepted |-> IsRelevantContent(page, rcThreshold)])
    /\ UNCHANGED rcThreshold

NextRelevance == \E page \in ContentInputs : IsRelevantContentCall(page)

(***************************************************************************)
(* The specifications: one part runs, the others stay switched off.        *)
(***************************************************************************)
vars == <<crawlVars, retryVars, sessionVars, wrVars, errVars, kvVars, searchVars,
         browseVars,
         detectVars,
         relevanceVars,
         saveVars,
         concVars>>

(***************************************************************************)
(* Part 11: SessionStorage.save, command by command.                       *)
(***************************************************************************)
\* The dicts callers save, as json.dumps renders them.
SaveData == {"s1", "s2", "s3"}

\* The expiry argument: 0 stands for None (and for 0, which is as falsy).
ExpiryArgs == {0, 60}

\* The TTL of a key: none, or a number of seconds.
NoTtl == <<"none", 0>>
Seconds(n) == <<"seconds", n>>

AbsentKey == [present |-> FALSE, value |-> "none", ttl |-> NoTtl]

\* SET key value: the value is replaced and a TTL the key had is dropped.
RedisSet(slot, value) == [present |-> TRUE, value |-> value, ttl |-> NoTtl]

\* EXPIRE key seconds
RedisExpire(slot, n) ==
    IF slot.present THEN [slot EXCEPT !.ttl = Seconds(n)] ELSE slot

\* DEL key
RedisDelete(slot) == AbsentKey

\* "expiry or self.default_expiry"
ExpiryUsed(expiry) == IF expiry = 0 THEN DefaultExpiry ELSE expiry

\* Where a call of save stops: an unknown key_type, json.dumps raising,
\* redis.set raising, redis.expire raising, or nowhere.
SaveFaults == {"key_type", "dumps", "set", "expire", "none"}

\* The key after save(key_type, domain, data, expiry) and what save returns.
\* A command that raises has not been carried out.
SaveOutcome(slot, data, expiry, fault) ==
    IF fault \in {"key_type", "dumps", "set"}
    THEN [slot |-> slot, returned |-> FALSE]
    ELSE IF fault = "expire"
    THEN [slot |-> RedisSet(slot, data), returned |-> FALSE]
    ELSE [slot |-> RedisExpire(RedisSet(slot, data), ExpiryUsed(expiry)),
          returned |-> TRUE]

NoSave == [fault |-> "none", before |-> AbsentKey, returned |-> TRUE]

SaveOff ==
    /\ svSlot = AbsentKey
    /\ svLast = [NoSave EXCEPT !.fault = "off"]

InitSave ==
    /\ svSlot = AbsentKey
    /\ svLast = NoSave

\* SessionStorage.save
SaveCall(data, expiry, fault) ==
    /\ UNCHANGED nonSaveVars
    /\ LET out == SaveOutcome(svSlot, data, expiry, fault)
       IN  /\ svSlot' = out.slot
           /\ svLast' = [fault |-> fault, before |-> svSlot,
                         returned |-> out.returned]

\* SessionStorage.delete
SaveDeleteCall ==
    /\ UNCHANGED nonSaveVars
    /\ svSlot.present
    /\ svSlot' = RedisDelete(svSlot)
    /\ svLast' = [fault |-> "none", before |-> svSlot, returned |-> TRUE]

NextSave ==
    \/ \E data \in SaveData, expiry \in ExpiryArgs, fault \in SaveFaults :
           SaveCall(data, expiry, fault)
    \/ SaveDeleteCall

(***************************************************************************)
(* Part 12: two calls of apply_cookies_and_session for one domain, each in *)
(* a thread of its own, statement by statement.                            *)
(***************************************************************************)
Threads == {1, 2}

\* A stored session: which one it is (0: none) and whether it has cookies.
NothingStored == [id |-> 0, cookies |-> FALSE]
StoredEarlier == [id |-> 1, cookies |-> TRUE]

\* generate_new_session(domain): {"cookies": [], ...}, saved under the domain.
Generated(made) == [id |-> made + 2, cookies |-> FALSE]

CallIdle == [session_data |-> NothingStored, retries |-> 0, success |-> FALSE,
             found |-> TRUE]

ConcOff ==
    /\ cStore = NothingStored
    /\ cStatus = "off"
    /\ cPc = [th \in Threads |-> "off"]
    /\ cLoc = [th \in Threads |-> CallIdle]
    /\ cMade = 0

\* Both crawlers of the site are constructed: each calls init_driver, which
\* calls apply_cookies_and_session(driver, domain).
InitConc ==
    /\ cStore \in {NothingStored, StoredEarlier}
    /\ cStatus = "unknown"
    /\ cPc = [th \in Threads |-> "load"]
    /\ cLoc = [th \in Threads |-> CallIdle]
    /\ cMade = 0

\* session_data = self.load_cookies(domain), and the test that follows.
CcLoad(th) ==
    /\ UNCHANGED nonConcVars
    /\ cPc[th] = "load"
    /\ cLoc' = [cLoc EXCEPT ![th].session_data = cStore]
    /\ cPc' = [cPc EXCEPT ![th] = IF cStore.cookies THEN "validate" ELSE "generate"]
    /\ UNCHANGED <<cStore, cStatus, cMade>>

\* session_data = self.generate_new_session(domain), in the try block or at
\* the end of the handler.
CcGenerate(th) ==
    /\ UNCHANGED nonConcVars
    /\ cPc[th] \in {"generate", "regenerate"}
    /\ cStore' = Generated(cMade)
    /\ cMade' = cMade + 1
    /\ cLoc' = [cLoc EXCEPT ![th].session_data = Generated(cMade)]
    /\ cPc' = [cPc EXCEPT ![th] = IF cPc[th] = "generate" THEN "validate"
                                  ELSE "load"]
    /\ UNCHANGED cStatus

\* The browser calls and self.validator.validate(driver, validation_url).
CcValidate(th, ok) ==
    /\ UNCHANGED nonConcVars
    /\ cPc[th] = "validate"
    /\ cPc' = [cPc EXCEPT ![th] = IF ok THEN "mark_valid" ELSE "caught"]
    /\ UNCHANGED <<cStore, cStatus, cLoc, cMade>>

\* success = True; self.status_manager.update_status(domain, "valid")
CcMarkValid(th) ==
    /\ UNCHANGED nonConcVars
    /\ cPc[th] = "mark_valid"
    /\ cStatus' = "valid"
    /\ cLoc' = [cLoc EXCEPT ![th].success = TRUE]
    /\ cPc' = [cPc EXCEPT ![th] = "return"]
    /\ UNCHANGED <<cStore, cMade>>

\* return driver; found tells whether the store then holds the session the
\* call validated, with the status valid.
CcReturn(th) ==
    /\ UNCHANGED nonConcVars
    /\ cPc[th] = "return"
    /\ cLoc' = [cLoc EXCEPT ![th].found =
                   cStore = cLoc[th].session_data /\ cStatus = "valid"]
    /\ cPc' = [cPc EXCEPT ![th] = "returned"]
    /\ UNCHANGED <<cStore, cStatus, cMade>>

\* except ...: retries += 1; if retries <= max_retries
CcCaught(th) ==
    /\ UNCHANGED nonConcVars
    /\ cPc[th] = "caught"
    /\ cLoc' = [cLoc EXCEPT ![th].retries = @ + 1]
    /\ cPc' = [cPc EXCEPT ![th] =
                  IF ApRetryAllowed(cLoc[th].retries + 1, MaxApplyRetries)
                  THEN "clear" ELSE "mark_failed"]
    /\ UNCHANGED <<cStore, cStatus, cMade>>

\* self.clear_cookies(domain)
CcClear(th) ==
    /\ UNCHANGED nonConcVars
    /\ cPc[th] = "clear"
    /\ cStore' = NothingStored
    /\ cPc' = [cPc EXCEPT ![th] = "mark_invalid"]
    /\ UNCHANGED <<cStatus, cLoc, cMade>>

\* self.status_manager.update_status(domain, "invalid"), then the sleep.
CcMarkInvalid(th) ==
    /\ UNCHANGED nonConcVars
    /\ cPc[th] = "mark_invalid"
    /\ cStatus' = "invalid"
    /\ cPc' = [cPc EXCEPT ![th] = "regenerate"]
    /\ UNCHANGED <<cStore, cLoc, cMade>>

\* update_status(domain, f"failed_after_{max_retries}_retries"); the loop
\* ends, the error is recorded and the driver returned.
CcMarkFailed(th) ==
    /\ UNCHANGED nonConcVars
    /\ cPc[th] = "mark_failed"
    /\ cStatus' = "failed_after"
    /\ cPc' = [cPc EXCEPT ![th] = "returned"]
    /\ UNCHANGED <<cStore, cLoc, cMade>>

NextConc ==
    \E th \in Threads :
        \/ CcLoad(th)
        \/ CcGenerate(th)
        \/ \E ok \in BOOLEAN : CcValidate(th, ok)
        \/ CcMarkValid(th)
        \/ CcReturn(th)
        \/ CcCaught(th)
        \/ CcClear(th)
        \/ CcMarkInvalid(th)
        \/ CcMarkFailed(th)

InitSpecCrawl == InitCrawl /\ RetryOff /\ SessionOff /\ WrOff /\ ErrOff /\ InitKeys /\ SearchOff
    /\ BrowseOff
    /\ DetectOff
    /\ RelevanceOff
    /\ SaveOff
    /\ ConcOff
SpecCrawl == InitSpecCrawl /\ [][NextCrawl]_vars
SpecCrawlFair ==
    /\ InitSpecCrawl
    /\ [][NextCrawlReturning]_vars
    /\ \A t \in Tasks : WF_vars(CrawlStep(t))

InitSpecRetry == InitRetry /\ CrawlOff /\ SessionOff /\ WrOff /\ ErrOff /\ InitKeys /\ SearchOff
    /\ BrowseOff
    /\ DetectOff
    /\ RelevanceOff
    /\ SaveOff
    /\ ConcOff
SpecRetry == InitSpecRetry /\ [][NextRetry]_vars

InitSpecCookies == InitCookies /\ CrawlOff /\ RetryOff /\ WrOff /\ ErrOff /\ InitKeys /\ SearchOff
    /\ BrowseOff
    /\ DetectOff
    /\ RelevanceOff
    /\ SaveOff
    /\ ConcOff
SpecCookies == InitSpecCookies /\ [][NextCookies]_vars

InitSpecSession == InitSession /\ CrawlOff /\ RetryOff /\ WrOff /\ ErrOff /\ InitKeys /\ SearchOff
    /\ BrowseOff
    /\ DetectOff
    /\ RelevanceOff
    /\ SaveOff
    /\ ConcOff
SpecSession == InitSpecSession /\ [][NextSession]_vars

InitSpecWithRetry == InitWithRetry /\ CrawlOff /\ RetryOff /\ ErrOff /\ InitKeys /\ SearchOff
    /\ BrowseOff
    /\ DetectOff
    /\ RelevanceOff
    /\ SaveOff
    /\ ConcOff
SpecWithRetry == InitSpecWithRetry /\ [][NextWithRetry]_vars

InitSpecErrors == InitErrors /\ CrawlOff /\ RetryOff /\ WrOff /\ InitKeys /\ SearchOff
    /\ BrowseOff
    /\ DetectOff
    /\ RelevanceOff
    /\ SaveOff
    /\ ConcOff
SpecErrors == InitSpecErrors /\ [][NextErrors]_vars

InitSpecKeys == InitKeys /\ CrawlOff /\ RetryOff /\ SessionOff /\ WrOff /\ ErrOff /\ SearchOff
    /\ BrowseOff
    /\ DetectOff
    /\ RelevanceOff
    /\ SaveOff
    /\ ConcOff
SpecKeys == InitSpecKeys /\ [][NextKeys]_vars

InitSpecSearch == InitSearch /\ CrawlOff /\ RetryOff /\ SessionOff /\ WrOff /\ ErrOff /\ InitKeys
    /\ BrowseOff
    /\ DetectOff
    /\ RelevanceOff
    /\ SaveOff
    /\ ConcOff
SpecSearch == InitSpecSearch /\ [][NextSearch]_vars

InitSpecBrowse == InitBrowse /\ CrawlOff /\ RetryOff /\ SessionOff /\ WrOff /\ ErrOff /\ InitKeys
    /\ SearchOff
    /\ DetectOff
    /\ RelevanceOff
    /\ SaveOff
    /\ ConcOff
SpecBrowse == InitSpecBrowse /\ [][NextBrowse]_vars

InitSpecDetect == InitDetect /\ CrawlOff /\ RetryOff /\ SessionOff /\ WrOff /\ ErrOff /\ InitKeys
    /\ SearchOff /\ BrowseOff
    /\ RelevanceOff
    /\ SaveOff
    /\ ConcOff
SpecDetect == InitSpecDetect /\ [][NextDetect]_vars

InitSpecRelevance == InitRelevance /\ CrawlOff /\ RetryOff /\ SessionOff /\ WrOff /\ ErrOff /\ InitKeys
    /\ SearchOff /\ BrowseOff /\ DetectOff
    /\ SaveOff
    /\ ConcOff
SpecRelevance == InitSpecRelevance /\ [][NextRelevance]_vars

InitSpecSave == InitSave /\ CrawlOff /\ RetryOff /\ SessionOff /\ WrOff /\ ErrOff /\ InitKeys
    /\ SearchOff /\ BrowseOff /\ DetectOff /\ RelevanceOff
    /\ ConcOff
SpecSave == InitSpecSave /\ [][NextSave]_vars

InitSpecConc == InitConc /\ CrawlOff /\ RetryOff /\ SessionOff /\ WrOff /\ ErrOff /\ InitKeys
    /\ SearchOff /\ BrowseOff /\ DetectOff /\ RelevanceOff /\ SaveOff
SpecConc == InitSpecConc /\ [][NextConc]_vars

(***************************************************************************)
(* Claims about the crawl engine.                                          *)
(***************************************************************************)

\* C1: with any number of crawl tasks sharing the queue and the visited set,
\* every URL is fetched at most once: no URL has two fetches started, no two
\* tasks fetch the same URL, and a URL whose fetch is in flight is already in
\* visited_urls (the add precedes the await of the fetch, with nothing between
\* the membership test and the add).
C1_AtMostOnceFetch ==
    /\ \A u \in Urls : fetchCount[u] <= 1
    /\ \A t \in Tasks : pc[t] = "fetch" => cur[t][1] \in visited_urls
    /\ \A t1, t2 \in Tasks :
         (t1 # t2 /\ pc[t1] = "fetch" /\ pc[t2] = "fetch") => cur[t1][1] # cur[t2][1]

\* A fetch is in flight for a URL that still has an entry in the queue while
\* another task is at the top of its loop, about to dequeue.
C1_Witness ==
    \E t1, t2 \in Tasks :
        /\ t1 # t2
        /\ pc[t1] = "fetch"
        /\ pc[t2] = "loop"
        /\ url_queue # <<>>
        /\ Head(url_queue)[1] = cur[t1][1]
        /\ LoopCondition

\* C2 as stated: the queue never holds two entries for the same URL.
C2_FrontierNoDuplicates ==
    \A i, j \in 1..Len(url_queue) :
        i # j => url_queue[i][1] # url_queue[j][1]

\* C2 as amended: the queue can hold several entries for one URL (two pages
\* that link to a URL not yet visited each put it), but whenever a page is
\* expanded the entries it puts are for pairwise different URLs, none of which
\* is in visited_urls at that moment.
C2_PushesFiltered ==
    [][ Len(url_queue') > Len(url_queue) =>
          /\ \A i \in 1..Len(url_queue) : url_queue'[i] = url_queue[i]
          /\ \A i \in (Len(url_queue) + 1)..Len(url_queue') :
                /\ url_queue'[i][1] \notin visited_urls
                /\ \A j \in (Len(url_queue) + 1)..Len(url_queue') :
                      i # j => url_queue'[i][1] # url_queue'[j][1]
      ]_crawlVars

\* Two entries for one URL, not yet visited, are in the queue at the same time.
C2_Witness ==
    \E i, j \in 1..Len(url_queue) :
        /\ i < j
        /\ url_queue[i][1] = url_queue[j][1]
        /\ url_queue[i][1] \notin visited_urls

\* C3: no entry deeper than max_depth is fetched, and every entry that is put
\* on the queue has the depth of the page it was found on plus one.
C3_DepthBound ==
    /\ [](\A t \in Tasks : pc[t] = "fetch" => cur[t][2] <= max_depth)
    /\ [][ \A t \in Tasks :
             (pc[t] = "fetch" /\ pc'[t] # "fetch") =>
                 /\ Len(url_queue') >= Len(url_queue)
                 /\ \A i \in (Len(url_queue) + 1)..Len(url_queue') :
                       url_queue'[i][2] = cur[t][2] + 1
         ]_crawlVars

\* An entry found on a page of depth max_depth - 1 is being fetched while
\* another entry of depth max_depth waits in the queue.
C3_Witness ==
    /\ max_depth >= 1
    /\ \E t \in Tasks : pc[t] = "fetch" /\ cur[t][2] = max_depth
    /\ \E i \in 1..Len(url_queue) : url_queue[i][2] = max_depth

\* run() has returned: every task ended without an exception.
RunReturned == \A t \in Tasks : pc[t] = "done"

\* C4 as stated: for every max_depth >= 0, once the fetch of the start URL has
\* returned content, the start URL is a key of the results run() returns.
C4_SeedInResult ==
    (RunReturned /\ start_url \in gotContent) => start_url \in DOMAIN results

(***************************************************************************)
(* Claims about RetryStrategy.                                             *)
(***************************************************************************)
RECURSIVE Pow(_, _)
Pow(b, k) == IF k = 0 THEN 1 ELSE b * Pow(b, k - 1)

\* Every call of func so far raised an exception the handler catches.
EveryCallFailed ==
    \A i \in 1..Len(opCalls) : opCalls[i] \in CaughtByExecutor

\* C5: with max_retries = n, when func fails on every call the executor calls
\* it exactly n + 1 times, sleeps exactly n times, the i-th sleep following the
\* i-th call and lasting initial_delay * backoff_factor^(i-1), does not sleep
\* after the last call, and raises the exception of the last call.
C5_RetryBound ==
    (retryPc = "raised" /\ EveryCallFailed) =>
        /\ Len(opCalls) = policy.max_retries + 1
        /\ Len(sleeps) = policy.max_retries
        /\ \A i \in 1..Len(sleeps) :
              /\ sleeps[i][1] = i
              /\ sleeps[i][2][1] * Pow(BackoffDen, i - 1)
                    = policy.initial_delay * Pow(BackoffNum, i - 1) * sleeps[i][2][2]
        /\ retryOutcome = <<opCalls[Len(opCalls)], Len(opCalls)>>

\* The default policy has run to exhaustion: 4 calls, sleeps of 2, 3 and 4.5.
C5_Witness ==
    /\ retryPc = "raised"
    /\ EveryCallFailed
    /\ policy = [max_retries |-> 3, initial_delay |-> 2]
    /\ Len(opCalls) = 4
    /\ sleeps = << <<1, <<2, 1>> >>, <<2, <<6, 2>> >>, <<3, <<18, 4>> >> >>

\* The retryable set of the error taxonomy: transient automation errors are
\* retried, programming and contract errors are not.
RetryableSet == {"TimeoutException"}

\* C6 as stated: an exception outside the retryable set is propagated at once:
\* the call that raised it is the last call, no sleep follows it, and it is
\* what the executor raises.
C6_NonRetryablePropagates ==
    \A i \in 1..Len(opCalls) :
        (opCalls[i] # "ok" /\ opCalls[i] \notin RetryableSet) =>
            /\ i = Len(opCalls)
            /\ retryPc = "raised"
            /\ retryOutcome = <<opCalls[i], i>>
            /\ \A k \in 1..Len(sleeps) : sleeps[k][1] # i

(***************************************************************************)
(* Claims about CookieManager and SessionManager.                          *)
(***************************************************************************)

\* The key load_cookies has just read is still in the store: present, its TTL
\* not run out, the store reachable.
LoadedKeyHeld ==
    /\ storeUp
    /\ cookieStore[lastLoad.domain].present
    /\ now < cookieStore[lastLoad.domain].expire_at

\* The last_updated of the record load_cookies has just read is a timestamp.
LoadedStampReadable ==
    /\ "last_updated" \in cookieStore[lastLoad.domain].data.keys
    /\ cookieStore[lastLoad.domain].data.last_updated[1] = "iso"

\* The age of the record load_cookies has just read.
LoadedAge == now - cookieStore[lastLoad.domain].data.last_updated[2]

\* C7: for every domain, load_cookies on a key the store still holds returns
\* {"cookies": []} when the record's last_updated is more than min_session_age
\* (1800 s) ago, returns the record as stored when its age is at most
\* min_session_age, and returns {"cookies": []} when last_updated is missing
\* or does not parse.
C7_LoadByAge ==
    (apPc = "loaded" /\ LoadedKeyHeld) =>
        /\ (LoadedStampReadable /\ LoadedAge > 1800) => lastLoad.result = NoSession
        /\ (LoadedStampReadable /\ LoadedAge <= 1800) =>
              lastLoad.result = cookieStore[lastLoad.domain].data
        /\ ~LoadedStampReadable => lastLoad.result = NoSession

\* A session with cookies, saved 1801 s ago and still held by the store, has
\* been loaded as {"cookies": []}.
C7_Witness ==
    /\ apPc = "loaded"
    /\ LoadedKeyHeld
    /\ LoadedStampReadable
    /\ LoadedAge = 1801
    /\ cookieStore[lastLoad.domain].data.cookies # <<>>
    /\ lastLoad.result = NoSession

\* C8: for every max_retries = n, when apply_cookies_and_session has returned
\* after the validator reported a blocked page at every attempt (no browser
\* call raised before a validation, the store reachable), exactly n + 1
\* validations were made, the status of the domain is failed_after_n_retries
\* and the call appended exactly one error record, now the newest of the list.
C8_ExhaustedAfterBlocked ==
    (apPc = "returned" /\ storeUp /\ apHist.browserFaults = 0 /\ ~ap.success) =>
        /\ apHist.validations = ap.max_retries + 1
        /\ apHist.lastValidation = "blocked"
        /\ StatusOf(ap.domain) = <<"failed_after", ap.max_retries>>
        /\ apHist.errorsAppended = 1
        /\ Len(errorStore[ap.domain]) >= 1
        /\ errorStore[ap.domain][1] = <<"SessionError", now>>

\* A call with max_retries = 1 has returned after two blocked validations.
C8_Witness ==
    /\ apPc = "returned"
    /\ storeUp
    /\ ap.max_retries = 1
    /\ ~ap.success
    /\ apHist.browserFaults = 0
    /\ apHist.validations = 2
    /\ Len(apHist.sleeps) = 1
    /\ StatusOf(ap.domain) = <<"failed_after", 1>>

\* C9: whenever apply_cookies_and_session has returned with the store
\* reachable, the status of the domain is valid exactly when the last
\* validation of the call succeeded and failed_after_N_retries otherwise
\* (never invalid, never unknown), and a call that ends in valid has appended
\* no error record.
C9_StatusReflectsLastValidation ==
    (apPc = "returned" /\ storeUp) =>
        /\ (StatusOf(ap.domain) = <<"valid", 0>>) <=> (apHist.lastValidation = "ok")
        /\ (StatusOf(ap.domain) # <<"valid", 0>>) =>
              StatusOf(ap.domain) = <<"failed_after", ap.max_retries>>
        /\ (StatusOf(ap.domain) = <<"valid", 0>>) => apHist.errorsAppended = 0

\* A call has returned valid after a failed attempt and a retry.
C9_Witness ==
    /\ apPc = "returned"
    /\ storeUp
    /\ ap.retries >= 1
    /\ ap.last_error # None
    /\ apHist.lastValidation = "ok"
    /\ StatusOf(ap.domain) = <<"valid", 0>>
    /\ apHist.errorsAppended = 0

\* C10 as stated: the Load step of an attempt generates a session only when
\* the store holds none for the domain or the one it holds is aged-out, and a
\* successful call that follows a successful call for the same domain within
\* min_session_age presents the identity the earlier call presented.
C10_StoredSessionReused ==
    /\ (apPc \in {"except", "after", "raised", "returned"} /\ apHist.loadGenerated) =>
          (~apHist.loadHeld \/ apHist.loadAged)
    /\ (/\ apPc = "returned"
        /\ storeUp
        /\ ap.success
        /\ prevApply[ap.domain].ok
        /\ now - prevApply[ap.domain].at <= 1800) =>
          ap.session_data.user_agent = prevApply[ap.domain].user_agent

(***************************************************************************)
(* Claims about with_session_retry, the store and the error list.           *)
(***************************************************************************)
WrFinished == wrPc \in {"returned", "raised"}

WrEveryInvocationRaised ==
    \A i \in 1..Len(wrHist.invocations) : wrHist.invocations[i] # "ok"

ApAttempts == apHist.validations + apHist.browserFaults

\* C12: when every Redis command fails, load gives the empty dict (load_cookies
\* the empty session), get_list the empty list, save, delete and add_to_list
\* give False and nothing is stored; apply_cookies_and_session generates a new
\* session at every attempt and goes on to its end: it returns after a
\* successful validation or after max_retries + 1 attempts, and only an
\* exception of the browser makes it raise.
C12_StoreOutage ==
    (apPc # "off" /\ ~storeUp) =>
        /\ \A d \in Domains :
              /\ StorageLoad(cookieStore, d) = EmptyDict
              /\ StorageLoad(statusStore, d) = EmptyDict
              /\ LoadCookies(d) = [keys |-> {"cookies"}, cookies |-> <<>>,
                                   user_agent |-> None, last_updated |-> <<"none", 0>>]
              /\ StorageGetList(errorStore, d) = <<>>
              /\ ~StorageSaveResult
              /\ ~StorageDeleteResult(cookieStore, d)
              /\ ~StorageAddToListResult
              /\ ~cookieStore[d].present /\ ~statusStore[d].present
              /\ errorStore[d] = <<>>
        /\ apHist.generated = ApAttempts
        /\ (apPc \in {"except", "after", "returned", "raised"}) =>
              /\ ApAttempts >= 1
              /\ ap.session_data.cookies = <<>>
              /\ ap.session_data.user_agent \in UserAgents
        /\ (apPc = "returned") =>
              (ap.success \/ ApAttempts = ap.max_retries + 1)
        /\ (apPc = "raised") => (apHist.browserFaults >= 1 /\ ap.pending \notin ApplyCaught)

\* With the store down a call has returned valid at its second attempt, having
\* generated a session at both.
C12_Witness ==
    /\ ~storeUp
    /\ apPc = "returned"
    /\ ap.success
    /\ ap.retries = 1
    /\ apHist.generated = 2

C14_DomainFrame ==
    [][\A other \in KeyDomains :
          other # kvLast'.domain =>
              /\ KvSessionOf(other)' = KvSessionOf(other)
              /\ KvStatusOf(other)' = KvStatusOf(other)
              /\ KvErrorsOf(other)' = KvErrorsOf(other)]_kvVars

(***************************************************************************)
(* Claims about the search workflow and driver initialisation.             *)
(***************************************************************************)

\* What one call of search_with_anti_robot has seen when the first page was
\* blocked, the session restart succeeded and the page fetched again was
\* blocked too.
BlockedAfterRestart == <<"get_blocked", "restart_ok", "get_blocked">>

\* C15: when the page is blocked on the initial navigation and still blocked
\* after one successful session restart and re-navigation, the call has
\* returned False and nothing else happened in it: no search step, no second
\* restart, no handling attempt.
C15_StillBlockedFails ==
    (Len(sw.layer) >= 3 /\ SubSeq(sw.layer, 1, 3) = BlockedAfterRestart) =>
        /\ sPc \in {"returned", "not_saved"}
        /\ sw.result = "False"
        /\ sw.layer = BlockedAfterRestart

\* A call of either orchestrator that went this way and has returned.
C15_Witness ==
    /\ sPc = "not_saved"
    /\ sw.layer = BlockedAfterRestart
    /\ sw.result = "False"
    /\ sw.restarts = 1
    /\ sw.searches = 0

\* C16: one call of search_with_anti_robot makes at most one restart after
\* a block detected behind the search step: when the retried workflow is
\* blocked again it returns False instead of restarting again.
C16_OneRetryCycle == sw.postRestarts <= 1

\* C17: once the workflow has reported success and the save went through,
\* the session stored for the crawled domain holds the cookies and the
\* identity of the browser that completed the search.
C17_SavedSessionOfSearchBrowser ==
    (sPc = "saved" /\ sw.saveOk) =>
        sStore[Str(SearchDomain)] =
            [cookies |-> CookieList(sw.driver),
             user_agent |-> UserAgentOf(sw.driver)]

\* C18: every step in which a component detects a blocked page also appends
\* an error record for the domain.
C18_BlockRecorded ==
    [][sw'.blocks > sw.blocks => sw'.records > sw.records]_searchVars

(***************************************************************************)
(* Claims about the termination of crawl tasks and the shared browser.     *)
(***************************************************************************)

\* C19: a crawl task leaves its loop only with the frontier empty, and then
\* only when the page budget is used up or no other task is fetching a page
\* that can still add entries.
C19_ExitOnlyWhenDone ==
    [][\A t \in Tasks :
          (pc[t] = "loop" /\ pc'[t] = "done") =>
              /\ url_queue = <<>>
              /\ \/ Cardinality(visited_urls) >= max_pages
                 \/ \A o \in Tasks \ {t} :
                        pc[o] = "fetch" => ~MayExpand(cur[o][2])]_crawlVars

\* C20: no crawl loop closes, creates or navigates the browser while another
\* crawl loop is between dequeuing an entry and finishing its processing,
\* whatever num_tasks run() was called with.
C20_SingleOwner ==
    [][hLast'.n > hLast.n =>
          \A o \in Tasks \ {hLast'.task} : ~Processing(o)]_browseVars

(***************************************************************************)
(* Claims about the relevance gates and the recorded results.              *)
(***************************************************************************)

\* C21: in the relevance crawler a URL other than the start URL (its entries
\* all have depth > 0) that contains none of the configured keywords,
\* compared without regard to case, is never fetched, never in visited_urls
\* and never a key of the results.
C21_IrrelevantUrlDiscarded ==
    crawlerKind = "relevant" =>
        \A u \in Urls \ {start_url} :
            ~UrlHasKeyword(u, keywords) =>
                /\ fetchCount[u] = 0
                /\ u \notin visited_urls
                /\ u \notin DOMAIN results
                /\ \A t \in Tasks : cur[t] # NoEntry => cur[t][1] # u

\* An entry of a URL without the keyword was taken off the queue and dropped
\* by the gate, while a URL with the keyword was fetched.
C21_Witness ==
    /\ crawlerKind = "relevant"
    /\ keywords = {<<"a">>}
    /\ 3 \in gotContent
    /\ 2 \in gateSkipped
    /\ 2 \notin visited_urls
    /\ fetchCount[2] = 0

\* C22: in the browser-driven crawl an entry whose fetch raised a browser
\* error is given up only after the fetch was repeated: once the task has
\* moved on, driver.get was called for that URL more than once.
C22_BrowserErrorRetried ==
    \A u \in hHist.raised :
        (\A t \in Tasks : hCur[t] = None \/ hCur[t][1] # u) =>
            hHist.fetches[u] > 1

\* C23: a fetch that raises drops only its entry: no crawl task is ended by
\* the exception (it goes on with the next entry, and run() still returns).
C23_FetchErrorDropsEntry == \A t \in Tasks : pc[t] # "crashed"

(***************************************************************************)
(* Claims about the robot detector.                                        *)
(***************************************************************************)

C25_ThresholdInclusive ==
    \A i \in 1..Len(rcCalls) :
        (rcCalls[i].page.content /\ ~rcCalls[i].page.raised) =>
            (rcCalls[i].accepted <=> rcCalls[i].page.sim >= rcThreshold)

\* A page exactly at the threshold was accepted and one a step below it
\* rejected.
C25_Witness ==
    /\ Len(rcCalls) = 2
    /\ rcThreshold > 0
    /\ rcCalls[1].page = Computed(rcThreshold) /\ rcCalls[1].accepted
    /\ rcCalls[2].page = Computed(rcThreshold - 1) /\ ~rcCalls[2].accepted

(***************************************************************************)
(* Claims about the stored status and the steps between attempts.          *)
(***************************************************************************)

\* C26: the status stored for a domain is always one of unknown, valid,
\* invalid or failed_after_N_retries.
C26_StatusInEnum ==
    \A d \in Domains :
        \/ StatusOf(d) \in {Unknown, Valid, Invalid}
        \/ StatusOf(d)[1] = "failed_after"

\* C27: in apply_cookies_and_session, between a failed attempt that is not the
\* last and the next attempt the handler deletes the stored session, sets the
\* status to invalid, sleeps for the current delay, multiplies the delay by
\* backoff_factor and persists a newly generated session, in this order; after
\* the last failed attempt it does none of these.
C27_StepsBetweenAttempts ==
    LET d == ap.domain
        n == Len(apHist.sleeps)
    IN  /\ apPc = "sleep" =>
              /\ apHist.between = <<"clear_cookies", "update_status">>
              /\ storeUp => ~Held(cookieStore[d]) /\ StatusOf(d) = Invalid
              /\ n = ap.retries - 1
        /\ (apPc = "try" /\ ap.retries > 0) =>
              /\ apHist.between = <<"clear_cookies", "update_status", "sleep",
                                    "delay_multiplied", "generate_new_session">>
              /\ n = ap.retries
              /\ ap.delay[1] * apHist.sleeps[n][2] * BackoffDen
                    = apHist.sleeps[n][1] * ap.delay[2] * BackoffNum
              /\ ap.session_data.cookies = <<>>
              /\ storeUp => /\ Held(cookieStore[d])
                            /\ cookieStore[d].data = ap.session_data
                            /\ StatusOf(d) = Invalid
        /\ (apPc = "after" /\ ~ap.success /\ ap.retries > 0) =>
              /\ apHist.between = <<>>
              /\ ap.retries = ap.max_retries + 1
              /\ n = ap.max_retries
              /\ StatusOf(d) = IF storeUp THEN ExhaustedStatus(ap.max_retries)
                                ELSE Unknown

C27_Witness ==
    /\ apPc = "after"
    /\ ~ap.success
    /\ ap.retries = 2
    /\ apHist.sleeps = <<<<DefaultInitialDelay, 1>>>>
    /\ ap.delay = <<DefaultInitialDelay * BackoffNum, BackoffDen>>
    /\ storeUp
    /\ Held(cookieStore[ap.domain])

\* C28: a page past depth 0 that was fetched with no content, or with content
\* that is_relevant_content refused, has no entry in results, the step that
\* ends its processing puts nothing on the queue, and its URL stays in
\* visited_urls.
C28_RejectedPageLeavesNothing ==
    /\ [](rejected \cap DOMAIN results = {} /\ rejected \subseteq visited_urls)
    /\ [][\A t \in Tasks :
             (pc[t] = "fetch" /\ cur[t][1] \notin rejected /\ cur[t][1] \in rejected')
                 => url_queue' = url_queue /\ results' = results]_vars

C28_Witness ==
    /\ crawlerKind = "relevant"
    /\ max_depth = MaxDepthBound
    /\ rejected \cap gotContent # {}
    /\ rejected \ gotContent # {}
    /\ \A t \in Tasks : pc[t] = "done"

\* C29 as stated: every page fetched with content that passed the content
\* gate has an entry in results, the pages whose depth is max_depth included.
C29_AcceptedPageRecorded == accepted \subseteq DOMAIN results

\* C30 as stated, for the browser-driven crawl: among the entries one accepted
\* page puts on the queue, every link of the page's own site comes before
\* every link of another site.
C30_SameDomainFirst ==
    [][\A t \in Tasks :
          (hPc[t] = "loading" /\ hPc'[t] = "loop") =>
              LET site == Netloc(hCur[t][1])
                  pushed == SubSeq(hQueue', Len(hQueue) + 1, Len(hQueue'))
              IN  \A i, j \in 1..Len(pushed) :
                      (i < j /\ Netloc(pushed[j][1]) = site)
                          => Netloc(pushed[i][1]) = site]_vars

\* C31 as stated, for with_session_retry: when the call is over, the calls of
\* func it made and the durations its loop slept are those execute_with_retry
\* makes for the same max_retries, initial delay and outcomes of func.
C31_WithRetryAsPrimitive ==
    wrPc \in {"returned", "raised"} =>
        LET run == RetryLoop(wrHist.invocations, 0, <<DefaultInitialDelay, 1>>,
                             wr.max_retries, [attempts |-> 0, sleeps |-> <<>>])
        IN  /\ run.attempts = Len(wrHist.invocations)
            /\ run.sleeps = wrHist.slept

\* C35 as stated: with_session_retry does not call func again after a call of
\* func has returned normally, whatever happens to the save that follows.
C35_NoCallAfterReturn ==
    \A i \in 1..Len(wrHist.invocations) :
        wrHist.invocations[i] = "ok" => i = Len(wrHist.invocations)

\* C32 as stated, for the orchestrator: once restart_session has replaced the
\* browser after a detection in the visit-and-search workflow, no session is
\* stored for the domain.
C32_BlockedSessionDeleted ==
    sw.restarts > 0 => sStore[Str(SearchDomain)] = NoStoredSession

\* C33: at every point of a run, with any number of tasks, visited_urls holds
\* at most max_pages URLs, and at most max_pages fetches have been started.
C33_VisitedWithinBudget ==
    /\ Cardinality(visited_urls) <= max_pages
    /\ Cardinality({ u \in Urls : fetchCount[u] > 0 }) <= max_pages
    /\ \A u \in Urls : fetchCount[u] <= 1

C33_Witness ==
    /\ max_pages = 2
    /\ Cardinality(visited_urls) = max_pages
    /\ \A t \in Tasks : pc[t] = "done"
    /\ url_queue # <<>>
    /\ \E i \in 1..Len(url_queue) :
           /\ url_queue[i][1] \notin visited_urls
           /\ url_queue[i][2] <= max_depth
           /\ ~UrlGateRejects(url_queue[i][1], url_queue[i][2])

\* C34: when every fetch returns, run() returns: every task leaves its loop,
\* none stays suspended in get() on an empty queue.
C34_RunReturns == <>RunReturned

C34_Witness ==
    /\ RunReturned
    /\ url_queue = <<>>
    /\ Cardinality(gotContent) >= 2
    /\ Cardinality(visited_urls) < max_pages

\* Every crawl task of the run has ended, by leaving its loop or by an
\* exception.
HRunOver == \A t \in Tasks : hPc[t] \in {"absent", "done", "crashed"}

C36_FailedSaveChangesNothing ==
    ~svLast.returned => svSlot = svLast.before

\* C37 as stated: the operations the owning crawler makes after the workflow
\* go to the browser that is open, the one the last restart created, and to
\* no handle quit() was called on.
C37_NoUseAfterQuit == \A h \in sw.operated : h = sw.driver

\* C39 as stated: of two calls of apply_cookies_and_session that run at the
\* same time for one domain, a call that returns after a successful
\* validation finds, when it returns, the session it validated in the store
\* and the status valid.
C39_ValidatedSessionStillStored ==
    \A th \in Threads :
        (cPc[th] = "returned" /\ cLoc[th].success) => cLoc[th].found
====
